---- MODULE Spec2Model ----
(***************************************************************************)
(* Judgment engine of RhythmGame (src/game.js).                            *)
(*                                                                         *)
(* Units.  Times are integers counting half milliseconds, so that the     *)
(* judgment thresholds (50/51/85/86/108/150/200 ms) and the readings      *)
(* between them are all representable.  Health is an integer counting     *)
(* half points (the code adds 2, 1.5 and subtracts 4), so health 100 is   *)
(* 200 here.                                                               *)
(*                                                                         *)
(* Clock.  The code reads the clock only as                                *)
(*   audioContext.currentTime - audioStartTime + GLOBAL_OFFSET;            *)
(* songClock is the difference of the first two terms.                     *)
(*                                                                         *)
(* Fields the engine writes but never reads (heldLanes, hitTime, sprites, *)
(* audioSource) are not part of the state.                                 *)
(***************************************************************************)
EXTENDS Integers, Sequences, FiniteSets, TLC

VARIABLES
    stats,          \* this.stats
    runtimeNotes,   \* this.runtimeNotes
    isPlaying,      \* this.isPlaying
    failTitle,      \* opacity of the #fail-title element (0 or 1)
    songClock,      \* audioContext.currentTime - audioStartTime
    GLOBAL_OFFSET,  \* this.GLOBAL_OFFSET
    ctxState,       \* audioContext.state: "running" or "suspended"
    startPc,        \* where a start() call in flight is waiting
    startChart,     \* the chart argument of the start() call in flight
    parser,         \* a BMSParser object
    parsed,         \* the value its last parse() call returned
    parseCalls      \* the number of parse() calls made on it

gameVars == <<stats, runtimeNotes, isPlaying, failTitle, songClock,
              GLOBAL_OFFSET, ctxState, startPc, startChart>>

parserVars == <<parser, parsed, parseCalls>>

vars == <<stats, runtimeNotes, isPlaying, failTitle, songClock,
          GLOBAL_OFFSET, ctxState, startPc, startChart, parser, parsed, parseCalls>>

\* ------------------------------------------------------------------ bounds
MaxClockSteps == 14     \* clock readings per session after the lead-in
BurstNotes == 32        \* notes of the dense chart
MaxCool == 26           \* best-tier judgments of the judgment stream
MaxFew == 2             \* judgments of each other kind in the judgment stream
MaxLines == 3           \* lines of a generated chart text
MaxParses == 2          \* parse() calls on one parser object
MaxOffset == 150        \* presses of the offset sweep are up to this many ms off

MaxLane == 6            \* highest lane index of a compiled note
MaxLaneNotes == 3       \* notes of a chart of the lane sweep

MaxHits == 2            \* key presses are accepted while cool+good+bad is below this

\* ------------------------------------------------------------------ units
Ms(x) == 2 * x

Abs(x) == IF x < 0 THEN -x ELSE x

Max(a, b) == IF a > b THEN a ELSE b

Min(a, b) == IF a < b THEN a ELSE b

\* ------------------------------------------------------------------ inputs
Tap(t, l) == [time |-> Ms(t), lane |-> l, type |-> "tap", duration |-> 0]

Ln(t, l, d) == [time |-> Ms(t), lane |-> l, type |-> "ln", duration |-> Ms(d)]

\* Two taps 80 ms apart in one lane.
ChartA == <<Tap(50, 0), Tap(130, 0)>>

\* A tap in lane 4 (remapped to lane 3), a hold note after it, and a hold in
\* lane 5 (dropped, because lane 4 is used).
ChartB == <<Tap(20, 4), Ln(30, 1, 200), Ln(80, 5, 60)>>

Charts == {ChartA, ChartB}

\* A dense chart: chords of three taps every 5 ms in lanes 0..2, then one tap
\* in lane 3.  It holds more notes than the 25 misses that take health from
\* 100 to 0, and the last note can still be hit when all the others have
\* aged out.
ChartBurst ==
    [i \in 1..BurstNotes |->
        IF i = BurstNotes THEN Tap(200, 3)
        ELSE Tap(10 + 5 * ((i - 1) \div 3), (i - 1) % 3)]

\* The chart of the judgment stream: one tap.
ChartOne == <<Tap(0, 0)>>

Tiers == {"COOL", "GOOD", "BAD"}

\* The key of lane 3.
BurstKeys == {"KeyD"}

\* Values of GLOBAL_OFFSET the arrow keys are followed to.
OffsetRange == {-Ms(10), 0, Ms(10)}

ClockStep == Ms(30)

LeadIn == Ms(100)

MaxSongClock == MaxClockSteps * ClockStep - LeadIn

KeyCodes == {"KeyD", "KeyF", "KeyJ", "KeyK", "ArrowRight", "ArrowLeft", "KeyA"}

\* ------------------------------------------------------------------ state
freshStats == [combo |-> 0, score |-> 0, cool |-> 0, good |-> 0, bad |-> 0,
               miss |-> 0, maxCombo |-> 0, comboBonus |-> 0, hp |-> 200]

keys == [c \in {"KeyD", "KeyF", "KeyJ", "KeyK"} |->
            CASE c = "KeyD" -> 3 [] c = "KeyF" -> 0 [] c = "KeyJ" -> 1 [] c = "KeyK" -> 2]

autoDemo == FALSE

currentTime == songClock + GLOBAL_OFFSET

\* The part of the object the judgment functions read and write.
game == [stats |-> stats, runtimeNotes |-> runtimeNotes, failTitle |-> failTitle]

setNote(g, i, n) == [g EXCEPT !.runtimeNotes[i] = n]

\* ------------------------------------------------------------------ judgment
\* Mutant of clampHp: the floor at 0 is missing.
clampHpNoFloor(h) == Min(200, h)

clampHp(h) == Max(0, Min(200, h))

\* Mutant of triggerHit: a bad-tier judgment resets combo but keeps comboBonus.
triggerHitBadKeepsBonus(g, judge) ==
    LET s0 == g.stats
        s1 == IF judge = "BAD"
              THEN [s0 EXCEPT !.combo = 0]
              ELSE LET c == s0.combo + 1
                   IN [s0 EXCEPT !.combo = c,
                                 !.maxCombo = IF c > s0.maxCombo THEN c ELSE s0.maxCombo,
                                 !.comboBonus = IF c > 0 /\ c % 25 = 0
                                                THEN s0.comboBonus + 10
                                                ELSE s0.comboBonus]
        bonus == IF judge \in {"COOL", "GOOD"} THEN s1.comboBonus ELSE 0
        gain == CASE judge = "COOL" -> 100 + bonus
                  [] judge = "GOOD" -> 80 + bonus
                  [] judge = "BAD" -> 10
                  [] OTHER -> 0
        heal == CASE judge = "COOL" -> 4
                  [] judge = "GOOD" -> 3
                  [] OTHER -> 0
        s2 == [s1 EXCEPT !.score = s1.score + gain,
                         !.cool = IF judge = "COOL" THEN @ + 1 ELSE @,
                         !.good = IF judge = "GOOD" THEN @ + 1 ELSE @,
                         !.bad = IF judge = "BAD" THEN @ + 1 ELSE @,
                         !.hp = clampHp(s1.hp + heal)]
    IN IF s2.hp <= 0
       THEN [g EXCEPT !.stats = s2, !.failTitle = 1]
       ELSE [g EXCEPT !.stats = [s2 EXCEPT !.score = IF @ < 0 THEN 0 ELSE @]]

triggerHit(g, judge) ==
    LET s0 == g.stats
        s1 == IF judge = "BAD"
              THEN [s0 EXCEPT !.combo = 0, !.comboBonus = 0]
              ELSE LET c == s0.combo + 1
                   IN [s0 EXCEPT !.combo = c,
                                 !.maxCombo = IF c > s0.maxCombo THEN c ELSE s0.maxCombo,
                                 !.comboBonus = IF c > 0 /\ c % 25 = 0
                                                THEN s0.comboBonus + 10
                                                ELSE s0.comboBonus]
        bonus == IF judge \in {"COOL", "GOOD"} THEN s1.comboBonus ELSE 0
        gain == CASE judge = "COOL" -> 100 + bonus
                  [] judge = "GOOD" -> 80 + bonus
                  [] judge = "BAD" -> 10
                  [] OTHER -> 0
        heal == CASE judge = "COOL" -> 4
                  [] judge = "GOOD" -> 3
                  [] OTHER -> 0
        s2 == [s1 EXCEPT !.score = s1.score + gain,
                         !.cool = IF judge = "COOL" THEN @ + 1 ELSE @,
                         !.good = IF judge = "GOOD" THEN @ + 1 ELSE @,
                         !.bad = IF judge = "BAD" THEN @ + 1 ELSE @,
                         !.hp = clampHp(s1.hp + heal)]
    IN IF s2.hp <= 0
       THEN [g EXCEPT !.stats = s2, !.failTitle = 1]
       ELSE [g EXCEPT !.stats = [s2 EXCEPT !.score = IF @ < 0 THEN 0 ELSE @]]

\* Mutant of triggerMiss: a miss resets combo but keeps comboBonus.
triggerMissKeepsBonus(g, i) ==
    LET s0 == g.stats
        s1 == [s0 EXCEPT !.combo = 0,
                         !.miss = @ + 1,
                         !.score = @ - 20,
                         !.hp = clampHp(@ - 8)]
        g1 == [g EXCEPT !.runtimeNotes[i].missed = TRUE]
    IN IF s1.hp <= 0
       THEN [g1 EXCEPT !.stats = s1, !.failTitle = 1]
       ELSE [g1 EXCEPT !.stats = [s1 EXCEPT !.score = IF @ < 0 THEN 0 ELSE @]]

triggerMiss(g, i) ==
    LET s0 == g.stats
        s1 == [s0 EXCEPT !.combo = 0,
                         !.miss = @ + 1,
                         !.comboBonus = 0,
                         !.score = @ - 20,
                         !.hp = clampHp(@ - 8)]
        g1 == [g EXCEPT !.runtimeNotes[i].missed = TRUE]
    IN IF s1.hp <= 0
       THEN [g1 EXCEPT !.stats = s1, !.failTitle = 1]
       ELSE [g1 EXCEPT !.stats = [s1 EXCEPT !.score = IF @ < 0 THEN 0 ELSE @]]

\* The tier of a press whose offset from its target is m (m > 0 is late).
judgeOf(m) ==
    IF m >= -Ms(50) /\ m <= Ms(50) THEN "COOL"
    ELSE IF (m >= Ms(51) /\ m <= Ms(85)) \/ (m >= -Ms(85) /\ m <= -Ms(51)) THEN "GOOD"
    ELSE IF (m >= Ms(86) /\ m <= Ms(108)) \/ (m >= -Ms(108) /\ m <= -Ms(86)) THEN "BAD"
    ELSE "MISS"

\* Mutant of candidates: a note exactly 150 ms away is a candidate.
candidatesInclusive(notes, lane, ct) ==
    {i \in 1..Len(notes) :
        /\ notes[i].lane = lane
        /\ ~notes[i].hit
        /\ ~notes[i].missed
        /\ Abs(notes[i].time - ct) <= Ms(150)}

\* Indices of the notes a press in lane at time ct can judge.
candidates(notes, lane, ct) ==
    {i \in 1..Len(notes) :
        /\ notes[i].lane = lane
        /\ ~notes[i].hit
        /\ ~notes[i].missed
        /\ Abs(notes[i].time - ct) < Ms(150)}

\* Mutant of closest: the candidates are not sorted, the first one is taken.
closestUnsorted(notes, cand, ct) ==
    CHOOSE i \in cand : \A j \in cand : i <= j

\* First element of the candidates after the stable sort by distance.
closest(notes, cand, ct) ==
    CHOOSE i \in cand :
        \A j \in cand :
            \/ Abs(notes[i].time - ct) < Abs(notes[j].time - ct)
            \/ (Abs(notes[i].time - ct) = Abs(notes[j].time - ct) /\ i <= j)

\* Mutant of checkHit: a successful press marks every candidate hit.
checkHitAllCandidates(g, lane, ct) ==
    LET cand == candidates(g.runtimeNotes, lane, ct)
    IN IF cand = {} THEN g
       ELSE LET t == closest(g.runtimeNotes, cand, ct)
                target == g.runtimeNotes[t]
                judge == judgeOf(ct - target.time)
                all == [g EXCEPT !.runtimeNotes =
                           [i \in 1..Len(g.runtimeNotes) |->
                               IF i \in cand
                               THEN [g.runtimeNotes[i] EXCEPT !.hit = TRUE]
                               ELSE g.runtimeNotes[i]]]
            IN IF judge # "MISS" THEN triggerHit(all, judge) ELSE triggerMiss(g, t)

\* Mutant of checkHit: the head of a hold note is marked hit like a tap.
checkHitHoldAsTap(g, lane, ct) ==
    LET cand == candidates(g.runtimeNotes, lane, ct)
    IN IF cand = {} THEN g
       ELSE LET t == closest(g.runtimeNotes, cand, ct)
                target == g.runtimeNotes[t]
                judge == judgeOf(ct - target.time)
            IN IF judge # "MISS"
               THEN triggerHit(setNote(g, t, [target EXCEPT !.hit = TRUE]), judge)
               ELSE triggerMiss(g, t)

\* Mutant of checkHit: a press whose target is outside every tier applies the
\* miss penalty and leaves the target unjudged.
checkHitFarUnmarked(g, lane, ct) ==
    LET cand == candidates(g.runtimeNotes, lane, ct)
    IN IF cand = {} THEN g
       ELSE LET t == closest(g.runtimeNotes, cand, ct)
                target == g.runtimeNotes[t]
                judge == judgeOf(ct - target.time)
            IN IF judge # "MISS"
               THEN IF target.type = "tap"
                    THEN triggerHit(setNote(g, t, [target EXCEPT !.hit = TRUE]), judge)
                    ELSE IF target.type = "ln"
                    THEN triggerHit(setNote(g, t, [target EXCEPT !.isHolding = TRUE]), judge)
                    ELSE g
               ELSE [triggerMiss(g, t) EXCEPT !.runtimeNotes = g.runtimeNotes]

checkHit(g, lane, ct) ==
    LET cand == candidates(g.runtimeNotes, lane, ct)
    IN IF cand = {} THEN g
       ELSE LET t == closest(g.runtimeNotes, cand, ct)
                target == g.runtimeNotes[t]
                judge == judgeOf(ct - target.time)
            IN IF judge # "MISS"
               THEN IF target.type = "tap"
                    THEN triggerHit(setNote(g, t, [target EXCEPT !.hit = TRUE]), judge)
                    ELSE IF target.type = "ln"
                    THEN triggerHit(setNote(g, t, [target EXCEPT !.isHolding = TRUE]), judge)
                    ELSE g
               ELSE triggerMiss(g, t)

\* Mutant of checkLNRelease: the held note is looked up without the test on
\* its missed flag.
checkLNReleaseOfMissed(g, lane, ct) ==
    LET held == {i \in 1..Len(g.runtimeNotes) :
                    LET n == g.runtimeNotes[i]
                    IN n.lane = lane /\ n.type = "ln" /\ n.isHolding /\ ~n.hit}
    IN IF held = {} THEN g
       ELSE LET h == CHOOSE i \in held : \A j \in held : i <= j
                holdingNote == g.runtimeNotes[h]
                diff == ct - (holdingNote.time + holdingNote.duration)
            IN IF diff < -Ms(200)
               THEN triggerMiss(setNote(g, h, [holdingNote EXCEPT !.missed = TRUE,
                                                                 !.isHolding = FALSE]), h)
               ELSE setNote(g, h, [holdingNote EXCEPT !.hit = TRUE, !.isHolding = FALSE])

\* Mutant of checkLNRelease: a release exactly 200 ms before the end is early.
checkLNReleaseInclusive(g, lane, ct) ==
    LET held == {i \in 1..Len(g.runtimeNotes) :
                    LET n == g.runtimeNotes[i]
                    IN n.lane = lane /\ n.type = "ln" /\ n.isHolding /\ ~n.hit /\ ~n.missed}
    IN IF held = {} THEN g
       ELSE LET h == CHOOSE i \in held : \A j \in held : i <= j
                holdingNote == g.runtimeNotes[h]
                diff == ct - (holdingNote.time + holdingNote.duration)
            IN IF diff <= -Ms(200)
               THEN triggerMiss(setNote(g, h, [holdingNote EXCEPT !.missed = TRUE,
                                                                 !.isHolding = FALSE]), h)
               ELSE setNote(g, h, [holdingNote EXCEPT !.hit = TRUE, !.isHolding = FALSE])

\* Mutant of checkLNRelease: an early release is penalised twice.
checkLNReleaseTwice(g, lane, ct) ==
    LET held == {i \in 1..Len(g.runtimeNotes) :
                    LET n == g.runtimeNotes[i]
                    IN n.lane = lane /\ n.type = "ln" /\ n.isHolding /\ ~n.hit /\ ~n.missed}
    IN IF held = {} THEN g
       ELSE LET h == CHOOSE i \in held : \A j \in held : i <= j
                holdingNote == g.runtimeNotes[h]
                diff == ct - (holdingNote.time + holdingNote.duration)
            IN IF diff < -Ms(200)
               THEN triggerMiss(triggerMiss(
                        setNote(g, h, [holdingNote EXCEPT !.missed = TRUE,
                                                          !.isHolding = FALSE]), h), h)
               ELSE setNote(g, h, [holdingNote EXCEPT !.hit = TRUE, !.isHolding = FALSE])

checkLNRelease(g, lane, ct) ==
    LET held == {i \in 1..Len(g.runtimeNotes) :
                    LET n == g.runtimeNotes[i]
                    IN n.lane = lane /\ n.type = "ln" /\ n.isHolding /\ ~n.hit /\ ~n.missed}
    IN IF held = {} THEN g
       ELSE LET h == CHOOSE i \in held : \A j \in held : i <= j
                holdingNote == g.runtimeNotes[h]
                diff == ct - (holdingNote.time + holdingNote.duration)
            IN IF diff < -Ms(200)
               THEN triggerMiss(setNote(g, h, [holdingNote EXCEPT !.missed = TRUE,
                                                                 !.isHolding = FALSE]), h)
               ELSE setNote(g, h, [holdingNote EXCEPT !.hit = TRUE, !.isHolding = FALSE])

\* Mutant of updateNote: a note exactly 150 ms late is already missed.
updateNoteInclusive(g, i, ct) ==
    LET n == g.runtimeNotes[i]
        demo == autoDemo /\ ~n.hit /\ ~n.missed
    IN IF demo /\ n.type = "tap" /\ Abs(n.time - ct) <= Ms(30)
       THEN triggerHit(setNote(g, i, [n EXCEPT !.hit = TRUE]), "COOL")
       ELSE LET g1 == IF demo /\ n.type = "ln" /\ ~n.isHolding /\ ct >= n.time
                      THEN triggerHit(setNote(g, i, [n EXCEPT !.isHolding = TRUE]), "COOL")
                      ELSE g
                n1 == g1.runtimeNotes[i]
            IN IF n1.type = "ln" /\ n1.isHolding /\ ~n1.hit /\ ~n1.missed
               THEN IF ct >= n1.time + n1.duration
                    THEN triggerHit(setNote(g1, i, [n1 EXCEPT !.hit = TRUE,
                                                              !.isHolding = FALSE]), "COOL")
                    ELSE g1
               ELSE IF n1.hit THEN g1
               ELSE IF /\ n1.time - ct <= -Ms(150)
                       /\ ~n1.hit /\ ~n1.missed
                       /\ (n1.type = "tap" \/ (n1.type = "ln" /\ ~n1.isHolding))
                    THEN triggerMiss(g1, i)
                    ELSE g1

\* Mutant of updateNote: a held hold note is not shielded from miss aging.
updateNoteAgesHeld(g, i, ct) ==
    LET n == g.runtimeNotes[i]
        demo == autoDemo /\ ~n.hit /\ ~n.missed
    IN IF demo /\ n.type = "tap" /\ Abs(n.time - ct) <= Ms(30)
       THEN triggerHit(setNote(g, i, [n EXCEPT !.hit = TRUE]), "COOL")
       ELSE LET g1 == IF demo /\ n.type = "ln" /\ ~n.isHolding /\ ct >= n.time
                      THEN triggerHit(setNote(g, i, [n EXCEPT !.isHolding = TRUE]), "COOL")
                      ELSE g
                n1 == g1.runtimeNotes[i]
            IN IF n1.type = "ln" /\ n1.isHolding /\ ~n1.hit /\ ~n1.missed
                  /\ ct >= n1.time + n1.duration
               THEN triggerHit(setNote(g1, i, [n1 EXCEPT !.hit = TRUE,
                                                         !.isHolding = FALSE]), "COOL")
               ELSE IF n1.hit THEN g1
               ELSE IF n1.time - ct < -Ms(150) /\ ~n1.hit /\ ~n1.missed
                    THEN triggerMiss(g1, i)
                    ELSE g1

\* Mutant of updateNote: the tail judgment of a hold note is of the good tier.
updateNoteTailGood(g, i, ct) ==
    LET n == g.runtimeNotes[i]
        demo == autoDemo /\ ~n.hit /\ ~n.missed
    IN IF demo /\ n.type = "tap" /\ Abs(n.time - ct) <= Ms(30)
       THEN triggerHit(setNote(g, i, [n EXCEPT !.hit = TRUE]), "COOL")
       ELSE LET g1 == IF demo /\ n.type = "ln" /\ ~n.isHolding /\ ct >= n.time
                      THEN triggerHit(setNote(g, i, [n EXCEPT !.isHolding = TRUE]), "COOL")
                      ELSE g
                n1 == g1.runtimeNotes[i]
            IN IF n1.type = "ln" /\ n1.isHolding /\ ~n1.hit /\ ~n1.missed
               THEN IF ct >= n1.time + n1.duration
                    THEN triggerHit(setNote(g1, i, [n1 EXCEPT !.hit = TRUE,
                                                              !.isHolding = FALSE]), "GOOD")
                    ELSE g1
               ELSE IF n1.hit THEN g1
               ELSE IF /\ n1.time - ct < -Ms(150)
                       /\ ~n1.hit /\ ~n1.missed
                       /\ (n1.type = "tap" \/ (n1.type = "ln" /\ ~n1.isHolding))
                    THEN triggerMiss(g1, i)
                    ELSE g1

\* One iteration of the loop of update() over the runtime notes.
\* Mutant of updateNote: a note that was not pressed is never aged out.
updateNoteNoAging(g, i, ct) ==
    LET n == g.runtimeNotes[i]
        demo == autoDemo /\ ~n.hit /\ ~n.missed
    IN IF demo /\ n.type = "tap" /\ Abs(n.time - ct) <= Ms(30)
       THEN triggerHit(setNote(g, i, [n EXCEPT !.hit = TRUE]), "COOL")
       ELSE LET g1 == IF demo /\ n.type = "ln" /\ ~n.isHolding /\ ct >= n.time
                      THEN triggerHit(setNote(g, i, [n EXCEPT !.isHolding = TRUE]), "COOL")
                      ELSE g
                n1 == g1.runtimeNotes[i]
            IN IF n1.type = "ln" /\ n1.isHolding /\ ~n1.hit /\ ~n1.missed
               THEN IF ct >= n1.time + n1.duration
                    THEN triggerHit(setNote(g1, i, [n1 EXCEPT !.hit = TRUE,
                                                              !.isHolding = FALSE]), "COOL")
                    ELSE g1
               ELSE g1

updateNote(g, i, ct) ==
    LET n == g.runtimeNotes[i]
        demo == autoDemo /\ ~n.hit /\ ~n.missed
    IN IF demo /\ n.type = "tap" /\ Abs(n.time - ct) <= Ms(30)
       THEN triggerHit(setNote(g, i, [n EXCEPT !.hit = TRUE]), "COOL")
       ELSE LET g1 == IF demo /\ n.type = "ln" /\ ~n.isHolding /\ ct >= n.time
                      THEN triggerHit(setNote(g, i, [n EXCEPT !.isHolding = TRUE]), "COOL")
                      ELSE g
                n1 == g1.runtimeNotes[i]
            IN IF n1.type = "ln" /\ n1.isHolding /\ ~n1.hit /\ ~n1.missed
               THEN IF ct >= n1.time + n1.duration
                    THEN triggerHit(setNote(g1, i, [n1 EXCEPT !.hit = TRUE,
                                                              !.isHolding = FALSE]), "COOL")
                    ELSE g1
               ELSE IF n1.hit THEN g1
               ELSE IF /\ n1.time - ct < -Ms(150)
                       /\ ~n1.hit /\ ~n1.missed
                       /\ (n1.type = "tap" \/ (n1.type = "ln" /\ ~n1.isHolding))
                    THEN triggerMiss(g1, i)
                    ELSE g1

\* The loop of update() from note i up to note last; the loop test reads
\* runtimeNotes.length before each iteration.
RECURSIVE sweepFrom(_, _, _, _)
sweepFrom(g, i, last, ct) ==
    IF i > last \/ i > Len(g.runtimeNotes) THEN g
    ELSE sweepFrom(updateNote(g, i, ct), i + 1, last, ct)

\* The loop of update() after its iterations over notes 1..last.
sweepTo(g, last, ct) == sweepFrom(g, 1, last, ct)

\* ------------------------------------------------------------------ session
usedLanes(notes) == {notes[i].lane : i \in 1..Len(notes)}

\* Mutant of remapLane: lane 4 is moved to lane 3 whether or not lane 3 is used.
remapLaneMerges(lane, used) ==
    LET l1 == IF lane = 4 THEN 3 ELSE lane
    IN IF l1 = 5 /\ 3 \notin used /\ 4 \notin used THEN 3 ELSE l1

remapLane(lane, used) ==
    LET l1 == IF lane = 4 /\ 3 \notin used THEN 3 ELSE lane
    IN IF l1 = 5 /\ 3 \notin used /\ 4 \notin used THEN 3 ELSE l1

prepareNotes(notes) ==
    LET used == usedLanes(notes)
        mapped == [i \in 1..Len(notes) |->
                      [time |-> notes[i].time,
                       lane |-> remapLane(notes[i].lane, used),
                       type |-> notes[i].type,
                       duration |-> notes[i].duration,
                       hit |-> FALSE, missed |-> FALSE, isHolding |-> FALSE]]
    IN SelectSeq(mapped, LAMBDA n : n.lane < 4)

\* ------------------------------------------------------------------ numbers
\* The numbers of the chart compiler are exact rationals [n, d] in lowest
\* terms with d > 0.  The non-finite values have d = 0: NaN is [0, 0],
\* Infinity [1, 0], -Infinity [-1, 0].  Rounding of the floating-point
\* operations is not represented.
RECURSIVE GCD(_, _)
GCD(a, b) == IF b = 0 THEN a ELSE GCD(b, a % b)

Sign(x) == IF x > 0 THEN 1 ELSE IF x < 0 THEN -1 ELSE 0

Rat(n, d) ==
    IF d = 0 THEN [n |-> Sign(n), d |-> 0]
    ELSE LET g == GCD(Abs(n), Abs(d))
         IN [n |-> (Sign(d) * n) \div g, d |-> Abs(d) \div g]

Num(k) == [n |-> k, d |-> 1]

NaN == [n |-> 0, d |-> 0]

isNaN(x) == x.d = 0 /\ x.n = 0

RAdd(x, y) ==
    IF isNaN(x) \/ isNaN(y) THEN NaN
    ELSE IF x.d = 0 /\ y.d = 0 THEN (IF x.n = y.n THEN x ELSE NaN)
    ELSE IF x.d = 0 THEN x
    ELSE IF y.d = 0 THEN y
    ELSE Rat(x.n * y.d + y.n * x.d, x.d * y.d)

RNeg(x) == [n |-> -x.n, d |-> x.d]

RSub(x, y) == RAdd(x, RNeg(y))

RMul(x, y) == Rat(x.n * y.n, x.d * y.d)

RInv(y) ==
    IF y.d = 0 THEN (IF y.n = 0 THEN NaN ELSE Num(0))
    ELSE IF y.n = 0 THEN [n |-> 1, d |-> 0]
    ELSE Rat(y.d, y.n)

RDiv(x, y) == RMul(x, RInv(y))

RAbs(x) == [n |-> Abs(x.n), d |-> x.d]

RLt(x, y) ==
    IF isNaN(x) \/ isNaN(y) \/ x = y THEN FALSE
    ELSE IF x.d = 0 THEN x.n < 0
    ELSE IF y.d = 0 THEN y.n > 0
    ELSE x.n * y.d < y.n * x.d

RLe(x, y) == x = y \/ RLt(x, y)

\* ------------------------------------------------------------------ strings
\* A string is a sequence of one-character strings.
DigitChars == <<"0", "1", "2", "3", "4", "5", "6", "7", "8", "9">>

UpperChars == <<"A", "B", "C", "D", "E", "F", "G", "H", "I", "J", "K", "L", "M",
                "N", "O", "P", "Q", "R", "S", "T", "U", "V", "W", "X", "Y", "Z">>

LowerChars == <<"a", "b", "c", "d", "e", "f", "g", "h", "i", "j", "k", "l", "m",
                "n", "o", "p", "q", "r", "s", "t", "u", "v", "w", "x", "y", "z">>

Range(f) == {f[i] : i \in DOMAIN f}

isDigit(c) == c \in Range(DigitChars)

isAlnum(c) == c \in Range(DigitChars) \cup Range(UpperChars) \cup Range(LowerChars)

isSpace(c) == c \in {" ", "\t", "\r", "\n"}

toUpperCase(s) ==
    [i \in 1..Len(s) |->
        IF s[i] \in Range(LowerChars)
        THEN UpperChars[CHOOSE k \in 1..26 : LowerChars[k] = s[i]]
        ELSE s[i]]

\* Value of c as a digit of the radix, or -1.
digitOf(c, radix) ==
    LET v == IF isDigit(c) THEN (CHOOSE k \in 1..10 : DigitChars[k] = c) - 1
             ELSE IF c \in Range(UpperChars)
             THEN 9 + (CHOOSE k \in 1..26 : UpperChars[k] = c)
             ELSE IF c \in Range(LowerChars)
             THEN 9 + (CHOOSE k \in 1..26 : LowerChars[k] = c)
             ELSE -1
    IN IF v < radix THEN v ELSE -1

\* The index of the last element of the longest run of s from i whose
\* elements all satisfy the test given as the set of indices that pass.
runEnd(s, i, pass) ==
    CHOOSE j \in (i - 1)..Len(s) :
        /\ \A k \in i..j : k \in pass
        /\ j = Len(s) \/ (j + 1) \notin pass

RECURSIVE digitsValue(_, _)
digitsValue(ds, radix) ==
    IF ds = <<>> THEN 0
    ELSE digitsValue(SubSeq(ds, 1, Len(ds) - 1), radix) * radix
             + digitOf(ds[Len(ds)], radix)

RECURSIVE pow10(_)
pow10(k) == IF k = 0 THEN 1 ELSE 10 * pow10(k - 1)

\* The number of white-space characters s begins with.
leadingSpace(s) == runEnd(s, 1, {k \in 1..Len(s) : isSpace(s[k])})

\* The sign a numeral may have at position a of s.
isNegative(s, a) == a <= Len(s) /\ s[a] = "-"

signLen(s, a) == IF a <= Len(s) /\ s[a] \in {"+", "-"} THEN 1 ELSE 0

\* The 0x prefix a numeral of radix 16 may have at position b of s.
prefixLen(s, radix, b) ==
    IF radix = 16 /\ b + 1 <= Len(s) /\ s[b] = "0" /\ s[b + 1] \in {"x", "X"}
    THEN 2 ELSE 0

\* The integer whose digits are s[c..e]; NaN without a digit.
intDigits(s, radix, neg, c, e) ==
    IF e < c THEN NaN
    ELSE Num((IF neg THEN -1 ELSE 1) * digitsValue(SubSeq(s, c, e), radix))

intFrom(s, radix, neg, c) ==
    intDigits(s, radix, neg, c,
              runEnd(s, c, {k \in 1..Len(s) : digitOf(s[k], radix) >= 0}))

intSigned(s, radix, neg, b) == intFrom(s, radix, neg, b + prefixLen(s, radix, b))

parseIntAt(s, radix, a) == intSigned(s, radix, isNegative(s, a), a + signLen(s, a))

\* parseInt(s, radix) for radix 10 and 16: leading white space, a sign, for
\* radix 16 a 0x prefix, then the longest run of digits; NaN without a digit.
parseInt(s, radix) == parseIntAt(s, radix, leadingSpace(s) + 1)

decimal(sign, int, frac, scale) == Rat(sign * (int * scale + frac), scale)

\* The number with integer digits s[b..e] and, if f > e + 1, fraction digits
\* s[e+2..f]; NaN without a digit.
floatDigits(s, neg, b, e, f) ==
    IF e < b /\ f <= e + 1 THEN NaN
    ELSE decimal(IF neg THEN -1 ELSE 1,
                 digitsValue(SubSeq(s, b, e), 10),
                 IF f > e + 1 THEN digitsValue(SubSeq(s, e + 2, f), 10) ELSE 0,
                 IF f > e + 1 THEN pow10(f - e - 1) ELSE 1)

floatFraction(s, neg, b, e) ==
    floatDigits(s, neg, b, e,
                IF e + 1 <= Len(s) /\ s[e + 1] = "."
                THEN runEnd(s, e + 2, {k \in 1..Len(s) : isDigit(s[k])})
                ELSE e)

floatFrom(s, neg, b) ==
    floatFraction(s, neg, b, runEnd(s, b, {k \in 1..Len(s) : isDigit(s[k])}))

parseFloatAt(s, a) == floatFrom(s, isNegative(s, a), a + signLen(s, a))

\* parseFloat(s): leading white space, a sign, digits with an optional
\* fraction; NaN without a digit.  Exponents are not represented.
parseFloat(s) == parseFloatAt(s, leadingSpace(s) + 1)

\* ------------------------------------------------------------------ compiler
\* BMSParser (src/unnamed/part_000).  A header value is a string or undefined.
Undefined == [def |-> FALSE, str |-> <<>>]

Str(s) == [def |-> TRUE, str |-> s]

EmptyMap == [k \in {} |-> Undefined]

put(m, k, v) == [x \in DOMAIN m \cup {k} |-> IF x = k THEN v ELSE m[x]]

\* text.split(/\r?\n/)
splitLines(text) ==
    LET nl == {k \in 1..Len(text) : text[k] = "\n"}
        nlPos(j) == CHOOSE k \in nl : Cardinality({m \in nl : m < k}) = j - 1
        first(j) == IF j = 1 THEN 1 ELSE nlPos(j - 1) + 1
        last(j) == IF j = Cardinality(nl) + 1 THEN Len(text)
                   ELSE IF nlPos(j) - 1 >= first(j) /\ text[nlPos(j) - 1] = "\r"
                   THEN nlPos(j) - 2
                   ELSE nlPos(j) - 1
    IN [j \in 1..(Cardinality(nl) + 1) |-> SubSeq(text, first(j), last(j))]

\* line.trim()
trim(s) ==
    LET ink == {k \in 1..Len(s) : ~isSpace(s[k])}
    IN IF ink = {} THEN <<>>
       ELSE SubSeq(s, CHOOSE a \in ink : \A k \in ink : a <= k,
                      CHOOSE b \in ink : \A k \in ink : b >= k)

\* reMeasure = /^#(\d{3})(\d{2}):([0-9A-Za-z]+)$/
matchMeasure(l) ==
    /\ Len(l) >= 8
    /\ l[1] = "#"
    /\ \A k \in 2..6 : isDigit(l[k])
    /\ l[7] = ":"
    /\ \A k \in 8..Len(l) : isAlnum(l[k])

\* reHeader = /^#([A-Z0-9]+)(?:\s+(.*))?$/i : the end of the key.
keyEnd(l) == runEnd(l, 2, {k \in 1..Len(l) : isAlnum(l[k])})

matchHeader(l) ==
    /\ Len(l) >= 2
    /\ l[1] = "#"
    /\ isAlnum(l[2])
    /\ keyEnd(l) = Len(l) \/ isSpace(l[keyEnd(l) + 1])

headerKey(l) == toUpperCase(SubSeq(l, 2, keyEnd(l)))

headerValue(l) ==
    IF keyEnd(l) = Len(l) THEN Undefined
    ELSE Str(SubSeq(l, runEnd(l, keyEnd(l) + 1, {k \in 1..Len(l) : isSpace(l[k])}) + 1,
                    Len(l)))

startsWith(s, p) == Len(s) >= Len(p) /\ SubSeq(s, 1, Len(p)) = p

\* parseFloat and parseInt of a header value; of undefined they give NaN.
floatOf(v) == IF v.def THEN parseFloat(v.str) ELSE NaN

intOf(v) == IF v.def THEN parseInt(v.str, 10) ELSE NaN

\* this.measures.get(mIdx)[ch] = data, on the object kept as the sequence of
\* its properties in insertion order.
setChannel(obj, ch, data) ==
    IF \E k \in 1..Len(obj) : obj[k].ch = ch
    THEN [k \in 1..Len(obj) |-> IF obj[k].ch = ch THEN [ch |-> ch, data |-> data] ELSE obj[k]]
    ELSE Append(obj, [ch |-> ch, data |-> data])

\* One iteration of the loop over the lines.
readLine(acc, raw) ==
    LET line == trim(raw)
    IN IF line = <<>> \/ line[1] # "#" THEN acc
       ELSE IF matchMeasure(line)
       THEN LET mIdx == parseInt(SubSeq(line, 2, 4), 10).n
                ch == SubSeq(line, 5, 6)
                data == SubSeq(line, 8, Len(line))
                obj == IF mIdx \in DOMAIN acc.measures THEN acc.measures[mIdx] ELSE <<>>
            IN [acc EXCEPT !.measures = put(acc.measures, mIdx, setChannel(obj, ch, data))]
       ELSE IF matchHeader(line)
       THEN LET key == headerKey(line)
                value == headerValue(line)
            IN [acc EXCEPT
                  !.headers = put(acc.headers, key, value),
                  !.bpmDefs = IF startsWith(key, <<"B", "P", "M">>) /\ Len(key) = 5
                              THEN put(acc.bpmDefs, SubSeq(key, 4, 5), floatOf(value))
                              ELSE acc.bpmDefs,
                  !.stopDefs = IF startsWith(key, <<"S", "T", "O", "P">>)
                               THEN put(acc.stopDefs, SubSeq(key, 5, Len(key)), intOf(value))
                               ELSE acc.stopDefs]
       ELSE acc

RECURSIVE readLines(_, _, _)
readLines(lines, i, acc) ==
    IF i > Len(lines) THEN acc
    ELSE readLines(lines, i + 1, readLine(acc, lines[i]))

getHeader(headers, key) == IF key \in DOMAIN headers THEN headers[key] ELSE Undefined

\* Mutant of initialBPMOf: the tempo of a chart without a tempo header is 150.
initialBPMOfDefault150(headers) ==
    LET v == getHeader(headers, <<"B", "P", "M">>)
    IN IF v.def /\ v.str # <<>> THEN parseFloat(v.str) ELSE Num(150)

\* parseFloat(this.headers['BPM'] || 120)
initialBPMOf(headers) ==
    LET v == getHeader(headers, <<"B", "P", "M">>)
    IN IF v.def /\ v.str # <<>> THEN parseFloat(v.str) ELSE Num(120)

\* parseInt(this.headers['LNTYPE'] || '1', 10)
lnTypeOf(headers) ==
    LET v == getHeader(headers, <<"L", "N", "T", "Y", "P", "E">>)
    IN IF v.def /\ v.str # <<>> THEN parseInt(v.str, 10) ELSE Num(1)

hasChannel(measures, i, ch) ==
    i \in DOMAIN measures /\ \E k \in 1..Len(measures[i]) : measures[i][k].ch = ch

channelData(measures, i, ch) ==
    measures[i][CHOOSE k \in 1..Len(measures[i]) : measures[i][k].ch = ch].data

maxMeasureOf(measures) ==
    IF DOMAIN measures = {} THEN 0
    ELSE CHOOSE m \in DOMAIN measures : \A k \in DOMAIN measures : m >= k

scaleOf(measures, i) ==
    IF hasChannel(measures, i, <<"0", "2">>)
    THEN parseFloat(channelData(measures, i, <<"0", "2">>))
    ELSE Num(1)

\* measureStartBeats[i], for i in 0..maxMeasure+1.
RECURSIVE measureStartBeats(_, _)
measureStartBeats(measures, i) ==
    IF i = 0 THEN Num(0)
    ELSE RAdd(measureStartBeats(measures, i - 1),
              RMul(Num(4), scaleOf(measures, i - 1)))

\* mStart + (step / totalSteps) * mLen, with totalSteps = len / 2.
beatIn(mStart, mNext, step, len) ==
    RAdd(mStart, RMul(RDiv(Num(step), Rat(len, 2)), RSub(mNext, mStart)))

\* getBeat(mIdx, step, totalSteps), with totalSteps = len / 2.
getBeat(measures, mIdx, step, len) ==
    beatIn(measureStartBeats(measures, mIdx), measureStartBeats(measures, mIdx + 1),
           step, len)

\* The elements of a finite set of integers in ascending order.
RECURSIVE ascending(_)
ascending(S) ==
    IF S = {} THEN <<>>
    ELSE LET m == CHOOSE x \in S : \A y \in S : x <= y
         IN <<m>> \o ascending(S \ {m})

\* The order in which for-in visits the channels of a measure: the keys that
\* are canonical integers (no leading zero) ascending, then the other keys in
\* insertion order.  The result lists indices into the object.
channelOrder(obj) ==
    LET ints == {k \in 1..Len(obj) : obj[k].ch[1] # "0"}
        at(v) == CHOOSE k \in ints : parseInt(obj[k].ch, 10).n = v
        sortedInts == ascending({parseInt(obj[k].ch, 10).n : k \in ints})
    IN [j \in 1..Len(sortedInts) |-> at(sortedInts[j])]
           \o SelectSeq([k \in 1..Len(obj) |-> k], LAMBDA k : k \notin ints)

noteLane(n) ==
    CASE n = 11 -> 0 [] n = 12 -> 1 [] n = 13 -> 2 [] n = 16 -> 3
      [] n = 17 -> 4 [] n = 18 -> 5 [] n = 19 -> 6 [] OTHER -> -1

lnLane(n) ==
    CASE n = 51 -> 0 [] n = 52 -> 1 [] n = 53 -> 2 [] n = 56 -> 3
      [] n = 57 -> 4 [] n = 58 -> 5 [] n = 59 -> 6 [] OTHER -> -1

Event(list, beat, type, value, lane, valStr) ==
    [list |-> list, beat |-> beat, type |-> type, value |-> value,
     lane |-> lane, valStr |-> valStr]

\* Mutant of eventOf: the null value of a hold channel is an event under
\* every long-note convention.
eventOfKeepsNull(rd, n, valStr, beat, lnType) ==
    IF valStr = <<"0", "0">>
    THEN IF n \in {51, 52, 53, 54}
         THEN <<Event("channel", beat, "ln", NaN, n - 51, valStr)>>
         ELSE <<>>
    ELSE IF n = 3
    THEN <<Event("time", beat, "bpm", parseInt(valStr, 16), -1, valStr)>>
    ELSE IF n = 8
    THEN IF valStr \in DOMAIN rd.bpmDefs
         THEN <<Event("time", beat, "bpm", rd.bpmDefs[valStr], -1, valStr)>>
         ELSE <<>>
    ELSE IF n = 9
    THEN IF valStr \in DOMAIN rd.stopDefs
         THEN <<Event("time", beat, "stop", rd.stopDefs[valStr], -1, valStr)>>
         ELSE <<>>
    ELSE IF n = 1
    THEN <<Event("channel", beat, "bgm", NaN, -1, valStr)>>
    ELSE IF n \in 11..19
    THEN IF noteLane(n) >= 0
         THEN <<Event("channel", beat, "note", NaN, noteLane(n), valStr)>>
         ELSE <<>>
    ELSE IF n \in 51..59
    THEN IF lnLane(n) >= 0
         THEN <<Event("channel", beat, "ln", NaN, lnLane(n), valStr)>>
         ELSE <<>>
    ELSE <<>>

\* What the body of the loop over the steps pushes for the value valStr at
\* beat of channel n: no event or one, marked with the list it is pushed to
\* ("time" for timeEvents, "channel" for channelEvents).
eventOf(rd, n, valStr, beat, lnType) ==
    IF valStr = <<"0", "0">>
    THEN IF n \in {51, 52, 53, 54} /\ lnType = Num(2)
         THEN <<Event("channel", beat, "ln", NaN, n - 51, valStr)>>
         ELSE <<>>
    ELSE IF n = 3
    THEN <<Event("time", beat, "bpm", parseInt(valStr, 16), -1, valStr)>>
    ELSE IF n = 8
    THEN IF valStr \in DOMAIN rd.bpmDefs
         THEN <<Event("time", beat, "bpm", rd.bpmDefs[valStr], -1, valStr)>>
         ELSE <<>>
    ELSE IF n = 9
    THEN IF valStr \in DOMAIN rd.stopDefs
         THEN <<Event("time", beat, "stop", rd.stopDefs[valStr], -1, valStr)>>
         ELSE <<>>
    ELSE IF n = 1
    THEN <<Event("channel", beat, "bgm", NaN, -1, valStr)>>
    ELSE IF n \in 11..19
    THEN IF noteLane(n) >= 0
         THEN <<Event("channel", beat, "note", NaN, noteLane(n), valStr)>>
         ELSE <<>>
    ELSE IF n \in 51..59
    THEN IF lnLane(n) >= 0
         THEN <<Event("channel", beat, "ln", NaN, lnLane(n), valStr)>>
         ELSE <<>>
    ELSE <<>>

\* Step i of a channel's data: data.substr(i * 2, 2) at getBeat(mIdx, i, steps).
stepEvents(rd, mIdx, ch, data, i) ==
    eventOf(rd, parseInt(ch, 10).n,
            SubSeq(data, 2 * i + 1, Min(2 * i + 2, Len(data))),
            getBeat(rd.measures, mIdx, i, Len(data)),
            lnTypeOf(rd.headers))

\* The loop over the steps i, i + 1, ... of one channel (i < len / 2).
RECURSIVE dataEvents(_, _, _, _, _)
dataEvents(rd, mIdx, ch, data, i) ==
    IF 2 * i >= Len(data) THEN <<>>
    ELSE stepEvents(rd, mIdx, ch, data, i) \o dataEvents(rd, mIdx, ch, data, i + 1)

\* The loop over the channels of one measure, from position j of their order.
RECURSIVE measureEvents(_, _, _, _)
measureEvents(rd, mIdx, order, j) ==
    IF j > Len(order) THEN <<>>
    ELSE LET c == rd.measures[mIdx][order[j]]
         IN dataEvents(rd, mIdx, c.ch, c.data, 0) \o measureEvents(rd, mIdx, order, j + 1)

\* The loop over sortedMeasureKeys, from position j.
RECURSIVE allEvents(_, _, _)
allEvents(rd, mkeys, j) ==
    IF j > Len(mkeys) THEN <<>>
    ELSE measureEvents(rd, mkeys[j], channelOrder(rd.measures[mkeys[j]]), 1)
             \o allEvents(rd, mkeys, j + 1)

\* Array.prototype.sort with the comparator a.key - b.key (a stable sort):
\* ks[i] is the key of seq[i].
stableSort(seq, ks) ==
    LET before(j, i) == RLt(ks[j], ks[i]) \/ (~RLt(ks[i], ks[j]) /\ j < i)
        rank(i) == Cardinality({j \in 1..Len(seq) : before(j, i)}) + 1
    IN [r \in 1..Len(seq) |-> seq[CHOOSE i \in 1..Len(seq) : rank(i) = r]]

sortByBeat(evs) == stableSort(evs, [i \in 1..Len(evs) |-> evs[i].beat])

\* Mutant of sortByTime: the list is left in the order of its pushes.
sortByTimeNone(ns) == ns

sortByTime(ns) == stableSort(ns, [i \in 1..Len(ns) |-> ns[i].time])

\* timeEvents and channelEvents, sorted.
timeEventsOf(rd) ==
    sortByBeat(SelectSeq(allEvents(rd, ascending(DOMAIN rd.measures), 1),
                         LAMBDA e : e.list = "time"))

channelEventsOf(rd) ==
    sortByBeat(SelectSeq(allEvents(rd, ascending(DOMAIN rd.measures), 1),
                         LAMBDA e : e.list = "channel"))

\* sortedBeats: the critical beats in ascending order.
sortedBeatsOf(timeEvents, channelEvents) ==
    LET S == {Num(0)} \cup {timeEvents[i].beat : i \in 1..Len(timeEvents)}
                      \cup {channelEvents[i].beat : i \in 1..Len(channelEvents)}
    IN [r \in 1..Cardinality(S) |->
           CHOOSE x \in S : Cardinality({y \in S : RLt(y, x)}) = r - 1]

\* Mutant of processTimeEvents: a stop lasts value / 24 beats.
RECURSIVE processTimeEventsTicks24(_, _, _)
processTimeEventsTicks24(tl, timeEvents, beat) ==
    IF ~(/\ tl.teIdx <= Len(timeEvents)
         /\ RLt(RAbs(RSub(timeEvents[tl.teIdx].beat, beat)), Rat(1, 1000000)))
    THEN tl
    ELSE LET ev == timeEvents[tl.teIdx]
             next == IF ev.type = "bpm"
                     THEN [tl EXCEPT !.currentBPM = ev.value,
                                     !.bpms = Append(@, [time |-> tl.lastTime,
                                                         bpm |-> ev.value]),
                                     !.teIdx = @ + 1]
                     ELSE LET stopBeats == RDiv(ev.value, Num(24))
                              stopTime == RMul(stopBeats, RDiv(Num(60), tl.currentBPM))
                          IN [tl EXCEPT !.lastTime = RAdd(@, stopTime),
                                        !.stops = Append(@, [time |-> tl.beatToTime[beat],
                                                             duration |-> stopTime]),
                                        !.teIdx = @ + 1]
         IN processTimeEventsTicks24(next, timeEvents, beat)

\* Mutant of processTimeEvents: a stop is recorded at the time it ends.
RECURSIVE processTimeEventsPostStop(_, _, _)
processTimeEventsPostStop(tl, timeEvents, beat) ==
    IF ~(/\ tl.teIdx <= Len(timeEvents)
         /\ RLt(RAbs(RSub(timeEvents[tl.teIdx].beat, beat)), Rat(1, 1000000)))
    THEN tl
    ELSE LET ev == timeEvents[tl.teIdx]
             next == IF ev.type = "bpm"
                     THEN [tl EXCEPT !.currentBPM = ev.value,
                                     !.bpms = Append(@, [time |-> tl.lastTime,
                                                         bpm |-> ev.value]),
                                     !.teIdx = @ + 1]
                     ELSE LET stopBeats == RDiv(ev.value, Num(48))
                              stopTime == RMul(stopBeats, RDiv(Num(60), tl.currentBPM))
                          IN [tl EXCEPT !.lastTime = RAdd(@, stopTime),
                                        !.stops = Append(@, [time |-> RAdd(tl.lastTime, stopTime),
                                                             duration |-> stopTime]),
                                        !.teIdx = @ + 1]
         IN processTimeEventsPostStop(next, timeEvents, beat)

\* The while loop that processes the time events at a critical beat.
RECURSIVE processTimeEvents(_, _, _)
processTimeEvents(tl, timeEvents, beat) ==
    IF ~(/\ tl.teIdx <= Len(timeEvents)
         /\ RLt(RAbs(RSub(timeEvents[tl.teIdx].beat, beat)), Rat(1, 1000000)))
    THEN tl
    ELSE LET ev == timeEvents[tl.teIdx]
             next == IF ev.type = "bpm"
                     THEN [tl EXCEPT !.currentBPM = ev.value,
                                     !.bpms = Append(@, [time |-> tl.lastTime,
                                                         bpm |-> ev.value]),
                                     !.teIdx = @ + 1]
                     ELSE LET stopBeats == RDiv(ev.value, Num(48))
                              stopTime == RMul(stopBeats, RDiv(Num(60), tl.currentBPM))
                          IN [tl EXCEPT !.lastTime = RAdd(@, stopTime),
                                        !.stops = Append(@, [time |-> tl.beatToTime[beat],
                                                             duration |-> stopTime]),
                                        !.teIdx = @ + 1]
         IN processTimeEvents(next, timeEvents, beat)

\* The loop over sortedBeats, from position k.
RECURSIVE integrate(_, _, _, _)
integrate(tl, sortedBeats, timeEvents, k) ==
    IF k > Len(sortedBeats) THEN tl
    ELSE LET beat == sortedBeats[k]
             deltaBeats == RSub(beat, tl.lastBeat)
             secondsPerBeat == RDiv(Num(60), tl.currentBPM)
             t == RAdd(tl.lastTime, RMul(deltaBeats, secondsPerBeat))
             tl1 == [tl EXCEPT !.lastTime = t, !.beatToTime = put(@, beat, t)]
             tl2 == processTimeEvents(tl1, timeEvents, beat)
         IN integrate([tl2 EXCEPT !.lastBeat = beat], sortedBeats, timeEvents, k + 1)

NoPending == [set |-> FALSE, time |-> Num(0)]

lnNote(time, lane, duration) ==
    [time |-> time, lane |-> lane, type |-> "ln", duration |-> duration]

\* One iteration of the loop that generates the notes.
materialize(out, ev, time, lnType) ==
    IF ev.type = "note"
    THEN [out EXCEPT !.notes = Append(@, [time |-> time, lane |-> ev.lane,
                                          type |-> "tap", duration |-> Num(0)])]
    ELSE IF ev.type = "ln"
    THEN LET pending == out.lnPending[ev.lane]
             closed == lnNote(pending.time, ev.lane, RSub(time, pending.time))
         IN IF lnType = Num(2)
            THEN IF ev.valStr = <<"0", "0">>
                 THEN IF pending.set
                      THEN [out EXCEPT !.notes = Append(@, closed),
                                       !.lnPending[ev.lane] = NoPending]
                      ELSE out
                 ELSE [out EXCEPT !.notes = IF pending.set THEN Append(@, closed) ELSE @,
                                  !.lnPending[ev.lane] = [set |-> TRUE, time |-> time]]
            ELSE IF pending.set
                 THEN [out EXCEPT !.notes = Append(@, closed),
                                  !.lnPending[ev.lane] = NoPending]
                 ELSE [out EXCEPT !.lnPending[ev.lane] = [set |-> TRUE, time |-> time]]
    ELSE IF ev.type = "bgm"
    THEN [out EXCEPT !.bgmEvents = Append(@, [time |-> time, id |-> ev.valStr])]
    ELSE out

\* Mutant of generate: the notes still pending after the last event are
\* pushed with duration 0.
RECURSIVE generateFlushes(_, _, _, _, _)
generateFlushes(out, channelEvents, beatToTime, lnType, k) ==
    IF k > Len(channelEvents)
    THEN [out EXCEPT !.notes =
             @ \o SelectSeq([l \in 1..10 |->
                                lnNote(out.lnPending[l - 1].time, l - 1, Num(0))],
                            LAMBDA n : out.lnPending[n.lane].set)]
    ELSE generateFlushes(materialize(out, channelEvents[k],
                                     beatToTime[channelEvents[k].beat], lnType),
                         channelEvents, beatToTime, lnType, k + 1)

\* The loop over channelEvents, from position k.
RECURSIVE generate(_, _, _, _, _)
generate(out, channelEvents, beatToTime, lnType, k) ==
    IF k > Len(channelEvents) THEN out
    ELSE generate(materialize(out, channelEvents[k], beatToTime[channelEvents[k].beat],
                              lnType),
                  channelEvents, beatToTime, lnType, k + 1)

\* new BMSParser(text)
newParser(text) ==
    [text |-> text, headers |-> EmptyMap, measures |-> EmptyMap, notes |-> <<>>,
     bgmEvents |-> <<>>, bpms |-> <<>>, stops |-> <<>>, duration |-> Num(0)]

\* The end of parse(): the final sorts, the parser object after the call and
\* the value the call returns.
finish(p, rd, initialBPM, tl, notes, bgmEvents) ==
    [parser |-> [text |-> p.text, headers |-> rd.headers, measures |-> rd.measures,
                 notes |-> notes, bgmEvents |-> bgmEvents, bpms |-> tl.bpms,
                 stops |-> tl.stops, duration |-> tl.lastTime],
     chart |-> [notes |-> notes, bgmEvents |-> bgmEvents, bpms |-> tl.bpms,
                stops |-> tl.stops, initialBPM |-> initialBPM,
                title |-> getHeader(rd.headers, <<"T", "I", "T", "L", "E">>),
                artist |-> getHeader(rd.headers, <<"A", "R", "T", "I", "S", "T">>),
                headers |-> rd.headers]]

sortOutput(p, rd, initialBPM, tl, out) ==
    finish(p, rd, initialBPM, tl, sortByTime(out.notes), sortByTime(out.bgmEvents))

\* Step 4 of parse(): the notes and background events with their times.
generateNotes(p, rd, initialBPM, channelEvents, tl) ==
    sortOutput(p, rd, initialBPM, tl,
               generate([notes |-> p.notes, bgmEvents |-> p.bgmEvents,
                         lnPending |-> [l \in 0..9 |-> NoPending]],
                        channelEvents, tl.beatToTime, lnTypeOf(rd.headers), 1))

\* The locals of step 3 before its loop, with this.bpms after the push of
\* the initial point.
startTimeLine(p, initialBPM) ==
    [lastBeat |-> Num(0), lastTime |-> Num(0), currentBPM |-> initialBPM,
     teIdx |-> 1, beatToTime |-> EmptyMap,
     bpms |-> Append(p.bpms, [time |-> Num(0), bpm |-> initialBPM]),
     stops |-> p.stops]

\* The locals of step 3 after its loop, for what a new parser object reads
\* from the text.
timeLineOf(rd) ==
    integrate(startTimeLine(newParser(<<>>), initialBPMOf(rd.headers)),
              sortedBeatsOf(timeEventsOf(rd), channelEventsOf(rd)),
              timeEventsOf(rd), 1)

\* Step 3 of parse(): the absolute time of every critical beat.
calculateTime(p, rd, initialBPM, timeEvents, channelEvents) ==
    generateNotes(p, rd, initialBPM, channelEvents,
                  integrate(startTimeLine(p, initialBPM),
                            sortedBeatsOf(timeEvents, channelEvents), timeEvents, 1))

\* Step 2 of parse(): the initial tempo and the sorted events.
buildTimeLine(p, rd) ==
    calculateTime(p, rd, initialBPMOf(rd.headers), timeEventsOf(rd),
                  channelEventsOf(rd))

\* parse() on the parser object p: the object after the call and the value
\* the call returns.  Step 1 reads the headers and the measure data.
parseOf(p) ==
    buildTimeLine(p, readLines(splitLines(p.text), 1,
                               [headers |-> p.headers, measures |-> p.measures,
                                bpmDefs |-> EmptyMap, stopDefs |-> EmptyMap]))

\* What step 1 of parse() reads from the text on a new parser object.
readFresh(text) ==
    readLines(splitLines(text), 1,
              [headers |-> EmptyMap, measures |-> EmptyMap,
               bpmDefs |-> EmptyMap, stopDefs |-> EmptyMap])

\* The value of parsed before any call has returned.
NoChart == [notes |-> <<>>, bgmEvents |-> <<>>, bpms |-> <<>>, stops |-> <<>>,
            initialBPM |-> NaN, title |-> Undefined, artist |-> Undefined,
            headers |-> EmptyMap]

\* No parser object is in use in a play session.
NoParser == newParser(<<>>)

\* The lines the chart texts are made of.
\* A tap in lane 0 at beat 0: #00011:11
LineTapA == <<"#", "0", "0", "0", "1", "1", ":", "1", "1">>

\* A tap in lane 1 at the middle of measure 1: #00112:0011
LineTapB == <<"#", "0", "0", "1", "1", "2", ":", "0", "0", "1", "1">>

\* A tap in lane 3 at the second of three steps of measure 2: #00216:001100
LineTapC == <<"#", "0", "0", "2", "1", "6", ":", "0", "0", "1", "1", "0", "0">>

\* Measure 1 is twice as long: #00102:2
LineScale == <<"#", "0", "0", "1", "0", "2", ":", "2">>

\* Lane 0 hold events at the start and the middle of measure 1: #00151:1111
LineHold == <<"#", "0", "0", "1", "5", "1", ":", "1", "1", "1", "1">>

\* Tempo header: #BPM 150
LineBpm == <<"#", "B", "P", "M", " ", "1", "5", "0">>

\* Tempo channel: 60 at beat 0: #00003:3C
LineBpmCh == <<"#", "0", "0", "0", "0", "3", ":", "3", "C">>

\* Extended tempo definition: #BPM01 90
LineBpmDef == <<"#", "B", "P", "M", "0", "1", " ", "9", "0">>

\* Extended tempo channel: definition 01 at the middle of measure 1: #00108:0001
LineBpmExt == <<"#", "0", "0", "1", "0", "8", ":", "0", "0", "0", "1">>

\* Stop definition: 48 ticks: #STOP01 48
LineStopDef == <<"#", "S", "T", "O", "P", "0", "1", " ", "4", "8">>

\* Stop channel: definition 01 at the start of measure 1: #00109:01
LineStopCh == <<"#", "0", "0", "1", "0", "9", ":", "0", "1">>

\* Long-note convention 2: #LNTYPE 2
LineLnType == <<"#", "L", "N", "T", "Y", "P", "E", " ", "2">>

\* Background music at beat 0: #00001:01
LineBgm == <<"#", "0", "0", "0", "0", "1", ":", "0", "1">>

\* A header in lower case, indented: #title demo
LineTitle == <<" ", " ", "#", "t", "i", "t", "l", "e", " ", "d", "e", "m", "o">>

\* "#00113:11"
LineTapD == <<"#", "0", "0", "1", "1", "3", ":", "1", "1">>

\* "#00151:11000011"
LineHold4 == <<"#", "0", "0", "1", "5", "1", ":", "1", "1", "0", "0", "0", "0", "1", "1">>

\* "#00011:11000000"
LineTap4 == <<"#", "0", "0", "0", "1", "1", ":", "1", "1", "0", "0", "0", "0", "0", "0">>

\* "#BPM -120"
LineBpmNeg == <<"#", "B", "P", "M", " ", "-", "1", "2", "0">>

\* "#00251:11"
LineHoldOpen == <<"#", "0", "0", "2", "5", "1", ":", "1", "1">>

\* "#00156:1100"
LineHold56 == <<"#", "0", "0", "1", "5", "6", ":", "1", "1", "0", "0">>

\* "#00102:0.75"
LineScaleFrac == <<"#", "0", "0", "1", "0", "2", ":", "0", ".", "7", "5">>

\* "#00103:3C"
LineBpmCh1 == <<"#", "0", "0", "1", "0", "3", ":", "3", "C">>

\* "#00209:01"
LineStopCh2 == <<"#", "0", "0", "2", "0", "9", ":", "0", "1">>

\* The lines of the generated texts.
LinePool == {LineTapA, LineTapB, LineTapC, LineScale, LineHold, LineBpm, LineBpmCh,
             LineLnType, LineBgm}

\* The text with the given lines, separated by line feeds.
RECURSIVE joinLines(_)
joinLines(ls) ==
    IF Len(ls) = 0 THEN <<>>
    ELSE IF Len(ls) = 1 THEN ls[1]
    ELSE ls[1] \o <<"\n">> \o joinLines(Tail(ls))

\* A text whose lines end with a carriage return and a line feed.
TextCRLF == LineTitle \o <<"\r", "\n">> \o LineTapB \o <<"\r", "\n">> \o LineHold
                \o <<"\r", "\n">>

\* A stop of 48 ticks at beat 4 between two taps.
TextStop == joinLines(<<LineStopDef, LineStopCh, LineTapA, LineTapB>>)

\* A change of tempo to 90 at beat 6 between two taps.
TextBpmExt == joinLines(<<LineBpmDef, LineBpmExt, LineTapB, LineTapC>>)

\* A stop of 48 ticks at beat 4 with taps before it, at it and after it.
TextStopOn == joinLines(<<LineStopDef, LineStopCh, LineTapA, LineTapD, LineTapB>>)

\* A hold channel whose four steps are 11, 00, 00, 11.
TextToggle == LineHold4

\* Base tempo 150 and one measure with a tap at step 0 of four steps.
TextTempo150 == joinLines(<<LineBpm, LineTap4>>)

\* A negative base tempo and two taps.
TextBpmNeg == joinLines(<<LineBpmNeg, LineTapA, LineTapB>>)

\* Three hold events in lane 0: the third is never closed.
TextHoldOpen == joinLines(<<LineHold, LineHoldOpen, LineTapC>>)

\* Explicit-off convention: a hold opened and closed by the null value, in
\* the hold channel of lane 0 and in that of lane 3.
TextOff51 == joinLines(<<LineLnType, LineHold4>>)

TextOff56 == joinLines(<<LineLnType, LineHold56>>)

\* A measure of three beats before a measure with a tap.
TextScaleFrac == joinLines(<<LineScaleFrac, LineTapC>>)

\* The stop channel of measure 1 given twice, before and after the tempo
\* channel of the measure.
TextRepeat == joinLines(<<LineStopDef, LineStopCh, LineBpmCh1, LineStopCh, LineTapC>>)

\* Tempo 60 from beat 0, stops of 48 ticks at beats 4 and 8, taps at beats 4,
\* 6 and 9 1/3.
TextStops2 ==
    joinLines(<<LineStopDef, LineBpmCh, LineStopCh, LineStopCh2, LineTapD, LineTapB,
                LineTapC>>)

FixedTexts == {TextCRLF, TextStop, TextBpmExt, TextStopOn, TextToggle,
               TextTempo150, TextBpmNeg, TextHoldOpen, TextOff51, TextOff56,
               TextScaleFrac, TextRepeat, TextStops2}

Texts ==
    {joinLines(ls) : ls \in UNION {[1..k -> LinePool] : k \in 1..MaxLines}}
        \cup FixedTexts

\* ------------------------------------------------------------------ actions
Init ==
    /\ stats = freshStats
    /\ runtimeNotes = <<>>
    /\ isPlaying = FALSE
    /\ failTitle = 0
    /\ songClock = 0
    /\ GLOBAL_OFFSET = 0
    /\ ctxState \in {"running", "suspended"}
    /\ startPc = "idle"
    /\ startChart = <<>>
    /\ parser = NoParser
    /\ parsed = NoChart
    /\ parseCalls = 0

install(g) ==
    /\ stats' = g.stats
    /\ runtimeNotes' = g.runtimeNotes
    /\ failTitle' = g.failTitle

\* The audio clock advances while the context runs.
AdvanceClock ==
    /\ ctxState = "running"
    /\ songClock + ClockStep <= MaxSongClock
    /\ songClock' = songClock + ClockStep
    /\ UNCHANGED <<stats, runtimeNotes, isPlaying, failTitle, GLOBAL_OFFSET,
                   ctxState, startPc, startChart>>
    /\ UNCHANGED parserVars

update ==
    /\ isPlaying
    /\ UNCHANGED <<isPlaying, songClock, GLOBAL_OFFSET, ctxState, startPc, startChart>>
    /\ UNCHANGED parserVars
    /\ install(sweepTo(game, Len(runtimeNotes), currentTime))

onKeyDown(code) ==
    /\ isPlaying
    /\ UNCHANGED <<isPlaying, songClock, ctxState, startPc, startChart>>
    /\ UNCHANGED parserVars
    /\ IF code = "ArrowRight"
       THEN /\ GLOBAL_OFFSET + Ms(10) \in OffsetRange
            /\ GLOBAL_OFFSET' = GLOBAL_OFFSET + Ms(10)
            /\ UNCHANGED <<stats, runtimeNotes, failTitle>>
       ELSE IF code = "ArrowLeft"
       THEN /\ GLOBAL_OFFSET - Ms(10) \in OffsetRange
            /\ GLOBAL_OFFSET' = GLOBAL_OFFSET - Ms(10)
            /\ UNCHANGED <<stats, runtimeNotes, failTitle>>
       ELSE /\ code \in DOMAIN keys
            /\ stats.cool + stats.good + stats.bad < MaxHits
            /\ install(checkHit(game, keys[code], currentTime))
            /\ UNCHANGED GLOBAL_OFFSET

onKeyUp(code) ==
    /\ code \in DOMAIN keys
    /\ UNCHANGED <<isPlaying, songClock, GLOBAL_OFFSET, ctxState, startPc, startChart>>
    /\ UNCHANGED parserVars
    /\ install(checkLNRelease(game, keys[code], currentTime))

\* start(): the synchronous part up to the first await.
start(chart) ==
    /\ startPc = "idle"
    /\ stats' = freshStats
    /\ failTitle' = 0
    /\ startPc' = "loading"
    /\ startChart' = chart
    /\ UNCHANGED <<runtimeNotes, isPlaying, songClock, GLOBAL_OFFSET, ctxState>>
    /\ UNCHANGED parserVars

\* start(): the audio failed to load; the call returns.
startLoadFailed ==
    /\ startPc = "loading"
    /\ startPc' = "idle"
    /\ startChart' = <<>>
    /\ UNCHANGED <<stats, runtimeNotes, isPlaying, failTitle, songClock,
                   GLOBAL_OFFSET, ctxState>>
    /\ UNCHANGED parserVars

\* start(): from the scheduling of the audio to the end of the call.
startPlay ==
    /\ songClock' = -LeadIn
    /\ isPlaying' = TRUE
    /\ ctxState' = "running"
    /\ startPc' = "idle"
    /\ startChart' = <<>>

\* start(): the audio is loaded; the notes are installed and, unless the
\* context must be resumed first, play begins.
startLoaded ==
    /\ startPc = "loading"
    /\ runtimeNotes' = prepareNotes(startChart)
    /\ IF ctxState = "suspended"
       THEN /\ startPc' = "resuming"
            /\ UNCHANGED <<isPlaying, songClock, ctxState, startChart>>
       ELSE startPlay
    /\ UNCHANGED <<stats, failTitle, GLOBAL_OFFSET>>
    /\ UNCHANGED parserVars

\* start(): audioContext.resume() has settled.
startResumed ==
    /\ startPc = "resuming"
    /\ startPlay
    /\ UNCHANGED <<stats, runtimeNotes, failTitle, GLOBAL_OFFSET>>
    /\ UNCHANGED parserVars

stop ==
    /\ ctxState' = "suspended"
    /\ isPlaying' = FALSE
    /\ stats' = freshStats
    /\ failTitle' = 0
    /\ UNCHANGED <<runtimeNotes, songClock, GLOBAL_OFFSET, startPc, startChart>>
    /\ UNCHANGED parserVars

Next ==
    \/ AdvanceClock
    \/ update
    \/ \E code \in KeyCodes : onKeyDown(code)
    \/ \E code \in KeyCodes : onKeyUp(code)
    \/ \E chart \in Charts : start(chart)
    \/ startLoadFailed
    \/ startLoaded
    \/ startResumed
    \/ stop

Spec == Init /\ [][Next]_vars

\* The same engine playing the dense chart, with only the key of lane 3 in use.
NextBurst ==
    \/ AdvanceClock
    \/ update
    \/ \E code \in BurstKeys : onKeyDown(code)
    \/ \E code \in BurstKeys : onKeyUp(code)
    \/ start(ChartBurst)
    \/ startLoadFailed
    \/ startLoaded
    \/ startResumed
    \/ stop

SpecBurst == Init /\ [][NextBurst]_vars

\* The judgment stream: a session in play in which triggerHit and triggerMiss
\* are called in any order, as the presses, releases and ticks of a long chart
\* call them.
InitJudge ==
    /\ stats = freshStats
    /\ runtimeNotes = prepareNotes(ChartOne)
    /\ isPlaying = TRUE
    /\ failTitle = 0
    /\ songClock = -LeadIn
    /\ GLOBAL_OFFSET = 0
    /\ ctxState = "running"
    /\ startPc = "idle"
    /\ startChart = <<>>
    /\ parser = NoParser
    /\ parsed = NoChart
    /\ parseCalls = 0

hitJudged(judge) ==
    /\ isPlaying
    /\ CASE judge = "COOL" -> stats.cool < MaxCool
         [] judge = "GOOD" -> stats.good < MaxFew
         [] judge = "BAD" -> stats.bad < MaxFew
    /\ UNCHANGED <<isPlaying, songClock, GLOBAL_OFFSET, ctxState, startPc, startChart>>
    /\ UNCHANGED parserVars
    /\ install(triggerHit(game, judge))

missJudged ==
    /\ isPlaying
    /\ stats.miss < MaxFew
    /\ UNCHANGED <<isPlaying, songClock, GLOBAL_OFFSET, ctxState, startPc, startChart>>
    /\ UNCHANGED parserVars
    /\ install(triggerMiss(game, 1))

NextJudge ==
    \/ \E judge \in Tiers : hitJudged(judge)
    \/ missJudged

SpecJudge == InitJudge /\ [][NextJudge]_vars

\* ------------------------------------------------------------------ compiling
InitParse ==
    /\ stats = freshStats
    /\ runtimeNotes = <<>>
    /\ isPlaying = FALSE
    /\ failTitle = 0
    /\ songClock = 0
    /\ GLOBAL_OFFSET = 0
    /\ ctxState = "suspended"
    /\ startPc = "idle"
    /\ startChart = <<>>
    /\ \E text \in Texts : parser = newParser(text)
    /\ parsed = NoChart
    /\ parseCalls = 0

\* Mutant of parse: the call finds a tempo point left on the object.
parseKeepsBpms ==
    /\ parseCalls < MaxParses
    /\ LET r == parseOf([parser EXCEPT
                            !.bpms = <<[time |-> Num(0), bpm |-> Num(120)]>>])
       IN /\ parser' = r.parser
          /\ parsed' = r.chart
    /\ parseCalls' = parseCalls + 1
    /\ UNCHANGED gameVars

\* A call of parse() on the parser object.
parse ==
    /\ parseCalls < MaxParses
    /\ LET r == parseOf(parser)
       IN /\ parser' = r.parser
          /\ parsed' = r.chart
    /\ parseCalls' = parseCalls + 1
    /\ UNCHANGED gameVars

NextParse == parse

SpecParse == InitParse /\ [][NextParse]_vars

\* The offset sweep: a session in play on the one-tap chart whose clock reads
\* any half millisecond up to MaxOffset ms before or after the note, and in
\* which the key of the note's lane is pressed.
InitTier ==
    /\ stats = freshStats
    /\ runtimeNotes = prepareNotes(ChartOne)
    /\ isPlaying = TRUE
    /\ failTitle = 0
    /\ songClock \in -Ms(MaxOffset)..Ms(MaxOffset)
    /\ GLOBAL_OFFSET = 0
    /\ ctxState = "running"
    /\ startPc = "idle"
    /\ startChart = <<>>
    /\ parser = NoParser
    /\ parsed = NoChart
    /\ parseCalls = 0

NextTier == \E code \in {"KeyF"} : onKeyDown(code)

SpecTier == InitTier /\ [][NextTier]_vars

\* The lane sweep: start() is loading a chart of MaxLaneNotes notes at
\* distinct times whose lanes are any of the lanes 0..MaxLane.
LaneCharts ==
    {[i \in 1..MaxLaneNotes |->
         IF i = 2 THEN Ln(10 * i, f[i], 50) ELSE Tap(10 * i, f[i])] :
     f \in [1..MaxLaneNotes -> 0..MaxLane]}

InitLanes ==
    /\ stats = freshStats
    /\ runtimeNotes = <<>>
    /\ isPlaying = FALSE
    /\ failTitle = 0
    /\ songClock = 0
    /\ GLOBAL_OFFSET = 0
    /\ ctxState \in {"running", "suspended"}
    /\ startPc = "loading"
    /\ startChart \in LaneCharts
    /\ parser = NoParser
    /\ parsed = NoChart
    /\ parseCalls = 0

NextLanes ==
    \/ startLoaded
    \/ startResumed

SpecLanes == InitLanes /\ [][NextLanes]_vars

\* The keys of the lanes of ChartB, and one of the offset keys.
LiveKeys == {"KeyD", "KeyJ", "ArrowLeft"}

\* The engine playing ChartB.
NextLive ==
    \/ AdvanceClock
    \/ update
    \/ \E code \in LiveKeys : onKeyDown(code)
    \/ \E code \in LiveKeys : onKeyUp(code)
    \/ start(ChartB)
    \/ startLoadFailed
    \/ startLoaded
    \/ startResumed
    \/ stop

\* Play under its scheduling: the audio clock goes on while the context runs,
\* and the ticker calls update() on every frame.
SpecLive == Init /\ [][NextLive]_vars /\ WF_vars(AdvanceClock) /\ WF_vars(update)

TypeOK ==
    /\ isPlaying \in BOOLEAN
    /\ failTitle \in {0, 1}
    /\ ctxState \in {"running", "suspended"}
    /\ startPc \in {"idle", "loading", "resuming"}

\* ------------------------------------------------------------------ claims
Notes == 1..Len(runtimeNotes)

Scheduled(n) == ~n.hit /\ ~n.missed /\ ~n.isHolding

Terminal(n) == n.hit \/ n.missed

\* Note i is unjudged, in lane, and within 150 ms of the clock reading.
Eligible(i, lane) ==
    /\ runtimeNotes[i].lane = lane
    /\ ~runtimeNotes[i].hit
    /\ ~runtimeNotes[i].missed
    /\ Abs(runtimeNotes[i].time - currentTime) < Ms(150)

Hits == stats.cool + stats.good + stats.bad

Judgments == stats.cool + stats.good + stats.bad + stats.miss

Press == \E code \in DOMAIN keys : onKeyDown(code)

Release == \E code \in DOMAIN keys : onKeyUp(code)

JudgmentEvent == update \/ Press \/ Release

Changed == {i \in Notes : runtimeNotes'[i] # runtimeNotes[i]}

\* C1: no double judgment.  A press either changes nothing or judges a note
\* that no earlier press had judged: once a press has judged a note (tap or
\* hold), no later press in the lane applies a judgment on account of it.
C1_NoDoubleJudgment ==
    [][Press =>
        \/ UNCHANGED <<stats, runtimeNotes>>
        \/ \E i \in Notes : Scheduled(runtimeNotes[i]) /\ i \in Changed]_vars

\* C2: the score is never negative.
C2_ScoreNonNegative == stats.score >= 0

\* C3: health stays within [0, 100] (0..200 half points).
C3_HealthInRange == stats.hp >= 0 /\ stats.hp <= 200

\* Health is 0 after more misses than it takes to empty it: the lower clamp
\* has acted.
C3_Witness == stats.hp = 0 /\ stats.miss > 25

\* C4: once health is 0, no press, release or tick changes any note's
\* runtime flags or the Performance State.
C4_NoJudgmentAfterFail ==
    [][(stats.hp <= 0 /\ JudgmentEvent) => UNCHANGED <<stats, runtimeNotes>>]_vars

\* Some terminal note has another hit or missed flag after the step.
FlagsBroken ==
    \E i \in Notes :
        /\ i <= Len(runtimeNotes')
        /\ Terminal(runtimeNotes[i])
        /\ \/ runtimeNotes'[i].hit # runtimeNotes[i].hit
           \/ runtimeNotes'[i].missed # runtimeNotes[i].missed

\* Every note of the lane is terminal.
LaneDone(lane) ==
    \A i \in Notes : runtimeNotes[i].lane = lane => Terminal(runtimeNotes[i])

\* C5: a note that is hit or missed is terminal.  A step that changes the hit
\* or missed flag of a terminal note is no press, release or tick; a step that
\* changes the Performance State is no tick when all notes are terminal, and
\* no press or release in a lane whose notes are all terminal.
C5_Terminal ==
    [][/\ FlagsBroken => ~JudgmentEvent
       /\ (stats' # stats /\ \A i \in Notes : Terminal(runtimeNotes[i])) => ~update
       /\ \A code \in DOMAIN keys :
             (stats' # stats /\ LaneDone(keys[code])) =>
                 ~(onKeyDown(code) \/ onKeyUp(code))]_vars

\* A hold note that a press marked missed while it was held: it is terminal,
\* and a release in its lane still finds isHolding set.
C5_Witness ==
    /\ isPlaying
    /\ \E i \in Notes : runtimeNotes[i].missed /\ runtimeNotes[i].isHolding

NewlyMissed == {i \in Notes : ~runtimeNotes[i].missed /\ runtimeNotes'[i].missed}

\* C6: miss aging.  A tick marks an unjudged tap missed exactly when the
\* clock reading is more than 150 ms past the note's time.  The iteration of
\* the tick that does so leaves combo and comboBonus 0 and applies one
\* penalty: the miss counter grows by 1, health falls by 4 (not below 0), the
\* score falls by at most 20.  Over the whole tick the miss counter grows by
\* one per note the tick marks missed, and a note already missed is left as
\* it is, so no later tick penalises it again.
C6_MissAging ==
    [][update =>
        /\ \A i \in Notes :
              (runtimeNotes[i].type = "tap" /\ Scheduled(runtimeNotes[i])) =>
                  IF currentTime - runtimeNotes[i].time > Ms(150)
                  THEN LET b == sweepTo(game, i - 1, currentTime).stats
                           a == sweepTo(game, i, currentTime).stats
                       IN /\ runtimeNotes'[i].missed
                          /\ a.combo = 0 /\ a.comboBonus = 0
                          /\ a.miss = b.miss + 1
                          /\ a.hp = Max(0, b.hp - 8)
                          /\ a.score <= b.score /\ a.score >= b.score - 20
                  ELSE ~runtimeNotes'[i].missed
        /\ \A i \in Notes : runtimeNotes[i].missed => runtimeNotes'[i] = runtimeNotes[i]
        /\ stats'.miss = stats.miss + Cardinality(NewlyMissed)]_vars

\* With a combo standing, an unpressed tap is past the threshold, and a held
\* hold note after it in the list has reached its end: the next tick marks
\* the tap missed and then applies the tail judgment.
C6_Witness ==
    /\ isPlaying
    /\ stats.combo > 0
    /\ \E i, j \in Notes :
          /\ i < j
          /\ runtimeNotes[i].type = "tap" /\ Scheduled(runtimeNotes[i])
          /\ currentTime - runtimeNotes[i].time > Ms(150)
          /\ runtimeNotes[j].isHolding /\ ~Terminal(runtimeNotes[j])
          /\ currentTime >= runtimeNotes[j].time + runtimeNotes[j].duration

\* C7: a press in a lane with no eligible candidate changes neither the
\* Performance State nor any note's runtime flags.
C7_EmptyPressNoOp ==
    [][\A code \in DOMAIN keys :
          (onKeyDown(code) /\ ~\E i \in Notes : Eligible(i, keys[code]))
              => UNCHANGED <<stats, runtimeNotes, failTitle>>]_vars

\* A press is accepted, and the only unjudged note of some lane is exactly
\* 150 ms away, so the lane has no eligible candidate.
C7_Witness ==
    /\ isPlaying
    /\ Hits < MaxHits
    /\ \E i \in Notes :
          /\ Scheduled(runtimeNotes[i])
          /\ Abs(runtimeNotes[i].time - currentTime) = Ms(150)
          /\ ~\E j \in Notes : Eligible(j, runtimeNotes[i].lane)

\* C8: a press changes the runtime flags of at most one note and increments
\* at most one judgment counter, by one.
C8_AtMostOneJudged ==
    [][Press =>
        /\ Cardinality(Changed) <= 1
        /\ stats'.cool >= stats.cool /\ stats'.good >= stats.good
        /\ stats'.bad >= stats.bad /\ stats'.miss >= stats.miss
        /\ (stats'.cool + stats'.good + stats'.bad + stats'.miss) - Judgments \in {0, 1}]_vars

\* Of two notes of one lane that are both within the window, one has been
\* judged and the other is still scheduled.
C8_Witness ==
    /\ isPlaying
    /\ \E i, j \in Notes :
          /\ i # j
          /\ runtimeNotes[i].lane = runtimeNotes[j].lane
          /\ Abs(runtimeNotes[i].time - currentTime) < Ms(150)
          /\ Abs(runtimeNotes[j].time - currentTime) < Ms(150)
          /\ Terminal(runtimeNotes[i])
          /\ Scheduled(runtimeNotes[j])
          /\ Judgments = 1

\* C9: the note a press judges is eligible and no eligible note of its lane
\* is closer in time to the clock reading.
C9_ClosestJudged ==
    [][Press =>
        \A i \in Changed :
            /\ Eligible(i, runtimeNotes[i].lane)
            /\ \A j \in Notes :
                  Eligible(j, runtimeNotes[i].lane) =>
                      Abs(runtimeNotes[i].time - currentTime)
                          <= Abs(runtimeNotes[j].time - currentTime)]_vars

\* The later of two notes of a lane was hit while the earlier one is still
\* scheduled and inside the window: the press passed over the earlier note.
C9_Witness ==
    /\ isPlaying
    /\ Judgments = 1
    /\ \E i, j \in Notes :
          /\ i < j
          /\ runtimeNotes[i].lane = runtimeNotes[j].lane
          /\ Scheduled(runtimeNotes[i])
          /\ Abs(runtimeNotes[i].time - currentTime) < Ms(150)
          /\ runtimeNotes[j].hit

\* C10: hold entry.  A press whose target (the closest eligible note, the
\* first of equally close ones) is a scheduled hold note with a tier other
\* than MISS sets isHolding on it, leaves hit and missed false and every
\* other note as it is, and applies the tier's update exactly once: the
\* tier's counter grows by one and no other counter changes.
C10_HoldEntry ==
    [][\A code \in DOMAIN keys : \A i \in Notes :
          LET n == runtimeNotes[i]
              tier == judgeOf(currentTime - n.time)
          IN (/\ n.type = "ln" /\ Scheduled(n) /\ Eligible(i, keys[code])
              /\ onKeyDown(code)
              /\ \A j \in Notes :
                    Eligible(j, keys[code]) =>
                        \/ Abs(n.time - currentTime) < Abs(runtimeNotes[j].time - currentTime)
                        \/ /\ Abs(n.time - currentTime) = Abs(runtimeNotes[j].time - currentTime)
                           /\ i <= j
              /\ tier # "MISS")
             => /\ runtimeNotes' = [runtimeNotes EXCEPT ![i].isHolding = TRUE]
                /\ ~runtimeNotes'[i].hit /\ ~runtimeNotes'[i].missed
                /\ stats' = triggerHit(game, tier).stats
                /\ stats'.cool = stats.cool + (IF tier = "COOL" THEN 1 ELSE 0)
                /\ stats'.good = stats.good + (IF tier = "GOOD" THEN 1 ELSE 0)
                /\ stats'.bad = stats.bad + (IF tier = "BAD" THEN 1 ELSE 0)
                /\ stats'.miss = stats.miss
                /\ stats'.score > stats.score]_vars

\* A hold note is held, neither hit nor missed, after exactly one judgment.
C10_Witness ==
    /\ isPlaying
    /\ Judgments = 1 /\ Hits = 1
    /\ \E i \in Notes :
          /\ runtimeNotes[i].type = "ln"
          /\ runtimeNotes[i].isHolding
          /\ ~runtimeNotes[i].hit /\ ~runtimeNotes[i].missed

\* Note i is a hold note that is held: isHolding, neither hit nor missed.
Held(i) ==
    /\ runtimeNotes[i].type = "ln"
    /\ runtimeNotes[i].isHolding
    /\ ~runtimeNotes[i].hit
    /\ ~runtimeNotes[i].missed

\* Note i is the held hold note a release in lane finds: the first one.
HeldIn(i, lane) ==
    /\ Held(i)
    /\ runtimeNotes[i].lane = lane
    /\ \A j \in Notes : (j < i /\ runtimeNotes[j].lane = lane) => ~Held(j)

EndTime(i) == runtimeNotes[i].time + runtimeNotes[i].duration

\* C11: while a hold note is held (isHolding, neither hit nor missed), no
\* tick marks it missed, however far the clock reading is past its head.
C11_HeldNotAged ==
    [][update => \A i \in Notes : Held(i) => ~runtimeNotes'[i].missed]_vars

\* A hold note is held, its head is more than 150 ms in the past and its end
\* has not come: a tap in its place would be aged out by the next tick.
C11_Witness ==
    /\ isPlaying
    /\ \E i \in Notes :
          /\ Held(i)
          /\ currentTime - runtimeNotes[i].time > Ms(150)
          /\ currentTime < EndTime(i)

\* C12: early release.  A release in a lane whose held hold note ends more
\* than 200 ms after the clock reading sets missed and clears isHolding on
\* that note, leaves every other note as it is, and applies one miss penalty:
\* the miss counter grows by 1, combo and comboBonus become 0, health falls by
\* 4 (not below 0), the score falls by at most 20, nothing else changes.
C12_EarlyRelease ==
    [][\A code \in DOMAIN keys : \A i \in Notes :
          (/\ HeldIn(i, keys[code])
           /\ EndTime(i) - currentTime > Ms(200)
           /\ onKeyUp(code))
          => /\ runtimeNotes' = [runtimeNotes EXCEPT ![i].missed = TRUE,
                                                     ![i].isHolding = FALSE]
             /\ stats'.miss = stats.miss + 1
             /\ stats'.combo = 0 /\ stats'.comboBonus = 0
             /\ stats'.hp = Max(0, stats.hp - 8)
             /\ stats'.score <= stats.score /\ stats'.score >= stats.score - 20
             /\ stats'.cool = stats.cool /\ stats'.good = stats.good
             /\ stats'.bad = stats.bad /\ stats'.maxCombo = stats.maxCombo]_vars

\* A hold note is missed and not held before the clock could age it out,
\* after one hit and one miss, while every other note is still scheduled: its
\* head was hit and it was released early.
C12_Witness ==
    /\ isPlaying
    /\ Hits = 1 /\ stats.miss = 1
    /\ \E i \in Notes :
          /\ runtimeNotes[i].type = "ln"
          /\ runtimeNotes[i].missed /\ ~runtimeNotes[i].isHolding
          /\ currentTime < runtimeNotes[i].time + Ms(150)
          /\ \A j \in Notes : j # i => Scheduled(runtimeNotes[j])

\* C13: lenient release.  A release in a lane whose held hold note ends no
\* more than 200 ms after the clock reading (or has already ended) sets hit
\* and clears isHolding on that note, leaves every other note as it is, and
\* leaves the Performance State unchanged.
C13_LenientRelease ==
    [][\A code \in DOMAIN keys : \A i \in Notes :
          (/\ HeldIn(i, keys[code])
           /\ EndTime(i) - currentTime <= Ms(200)
           /\ onKeyUp(code))
          => /\ runtimeNotes' = [runtimeNotes EXCEPT ![i].hit = TRUE,
                                                     ![i].isHolding = FALSE]
             /\ stats' = stats
             /\ failTitle' = failTitle]_vars

\* A hold note is hit before its end after a single judgment (its entry): it
\* was completed by a release, not by a tick.
C13_Witness ==
    /\ isPlaying
    /\ Judgments = 1
    /\ \E i \in Notes :
          /\ runtimeNotes[i].type = "ln"
          /\ runtimeNotes[i].hit /\ ~runtimeNotes[i].isHolding
          /\ currentTime < EndTime(i)

\* C14: auto hold-through.  A tick at a clock reading at or past the end of a
\* held hold note sets hit and clears isHolding on it, and its iteration
\* applies one judgment of the best tier: the cool counter and the combo grow
\* by 1, the score grows, no other counter changes.  A release in a lane
\* with no held hold note (as after the completion) changes nothing.
C14_AutoHoldThrough ==
    [][/\ update =>
            \A i \in Notes :
                (Held(i) /\ currentTime >= EndTime(i)) =>
                    LET b == sweepTo(game, i - 1, currentTime).stats
                        a == sweepTo(game, i, currentTime).stats
                    IN /\ runtimeNotes'[i].hit
                       /\ ~runtimeNotes'[i].isHolding
                       /\ ~runtimeNotes'[i].missed
                       /\ a.cool = b.cool + 1 /\ a.combo = b.combo + 1
                       /\ a.good = b.good /\ a.bad = b.bad /\ a.miss = b.miss
                       /\ a.score > b.score
       /\ \A code \in DOMAIN keys :
             ((\A i \in Notes : ~HeldIn(i, keys[code])) /\ onKeyUp(code))
                 => UNCHANGED <<stats, runtimeNotes, failTitle>>]_vars

\* A hold note is hit and the hit counters hold more judgments than presses
\* are accepted for: a tick applied the tail judgment.
C14_Witness ==
    /\ isPlaying
    /\ Hits > MaxHits
    /\ \E i \in Notes :
          /\ runtimeNotes[i].type = "ln"
          /\ runtimeNotes[i].hit /\ ~runtimeNotes[i].isHolding
          /\ currentTime >= EndTime(i)

\* A step that applies one judgment of tier to the Performance State: a press
\* or a call of the judgment stream after which the tier's counter is one up.
HitStep(judge) ==
    /\ \/ Press
       \/ hitJudged(judge)
    /\ CASE judge = "COOL" -> stats'.cool = stats.cool + 1
         [] judge = "GOOD" -> stats'.good = stats.good + 1
         [] judge = "BAD" -> stats'.bad = stats.bad + 1

\* The update of the claim for a successful judgment of tier on stats s:
\* base is the tier's score, heal its recovery in half points.
Successful(s, t, base, heal) ==
    LET c == s.combo + 1
        bonus == s.comboBonus + (IF c % 25 = 0 THEN 10 ELSE 0)
    IN /\ t.combo = c
       /\ t.maxCombo = Max(s.maxCombo, c)
       /\ t.comboBonus = bonus
       /\ t.score = s.score + base + bonus
       /\ t.hp = Max(0, Min(200, s.hp + heal))
       /\ t.bad = s.bad /\ t.miss = s.miss

\* C15: a judgment of the best or good tier makes combo c+1, maxCombo the
\* larger of maxCombo and c+1, adds 10 to comboBonus exactly when c+1 is a
\* multiple of 25, adds 100 (best) or 80 (good) plus the new comboBonus to
\* the score, adds 2 (best) or 1.5 (good) to health within [0, 100], and
\* increments the tier's counter and no other.
C15_SuccessfulUpdate ==
    [][/\ HitStep("COOL") =>
            (Successful(stats, stats', 100, 4) /\ stats'.good = stats.good)
       /\ HitStep("GOOD") =>
            (Successful(stats, stats', 80, 3) /\ stats'.cool = stats.cool)]_vars

\* C16: a judgment of the bad tier makes combo and comboBonus 0, adds exactly
\* 10 to the score, increments the bad counter, and leaves health, maxCombo
\* and the other counters as they are.
C16_BadUpdate ==
    [][HitStep("BAD") =>
          /\ stats'.combo = 0 /\ stats'.comboBonus = 0
          /\ stats'.score = stats.score + 10
          /\ stats'.hp = stats.hp
          /\ stats'.maxCombo = stats.maxCombo
          /\ stats'.miss = stats.miss
          /\ stats'.cool = stats.cool /\ stats'.good = stats.good]_vars

\* A combo of 25 or more (so a comboBonus above 0) was ended without a miss:
\* a bad-tier judgment reset it.
C16_Witness ==
    /\ stats.bad > 0 /\ stats.miss = 0
    /\ stats.maxCombo >= 25
    /\ stats.combo = 0 /\ stats.comboBonus = 0

\* The update of the claim for a miss on stats s.
Missed(s, t) ==
    /\ t.combo = 0 /\ t.comboBonus = 0
    /\ t.score = Max(0, s.score - 20)
    /\ t.hp = Max(0, s.hp - 8)
    /\ t.maxCombo = s.maxCombo
    /\ t.cool = s.cool /\ t.good = s.good /\ t.bad = s.bad

\* C17: a miss (a note aged out by a tick, a press judged as a miss, an early
\* release) makes combo and comboBonus 0, the score max(0, score - 20),
\* health max(0, health - 4), increments the miss counter, and leaves
\* maxCombo and the other counters as they are.
C17_MissUpdate ==
    [][/\ update =>
            \A i \in Notes :
                LET b == sweepTo(game, i - 1, currentTime).stats
                    a == sweepTo(game, i, currentTime).stats
                IN a.miss = b.miss + 1 => Missed(b, a)
       /\ ((Press \/ Release \/ missJudged) /\ stats'.miss = stats.miss + 1)
              => Missed(stats, stats')]_vars

\* C18: cancellation.  Between stop() and the next call of start() no press,
\* release or tick changes the Performance State or any note's runtime flags.
C18_Cancelled ==
    [][(~isPlaying /\ startPc = "idle" /\ JudgmentEvent)
          => UNCHANGED <<stats, runtimeNotes>>]_vars

\* C19: when start() installs the runtime notes of the new chart, and when it
\* begins play, the Performance State is the fresh one: score, combo,
\* maxCombo, comboBonus and all counters 0, health 100.
C19_ResetAtStart ==
    [][(startLoaded \/ startResumed) => stats' = freshStats]_vars

\* What the parser object has read: its headers and measures.
readOf == [headers |-> parser.headers, measures |-> parser.measures,
           bpmDefs |-> EmptyMap, stopDefs |-> EmptyMap]

\* The note events of the text with their absolute beats.
NoteEvents ==
    LET evs == channelEventsOf(readOf)
    IN {evs[i] : i \in {k \in 1..Len(evs) : evs[k].type \in {"note", "ln"}}}

NoTempoHeader == <<"B", "P", "M">> \notin DOMAIN parser.headers

NoTempoChannel ==
    \A m \in DOMAIN parser.measures :
        /\ ~hasChannel(parser.measures, m, <<"0", "3">>)
        /\ ~hasChannel(parser.measures, m, <<"0", "8">>)

\* C20: tempo default.  A chart with no tempo header and no tempo channel
\* compiles to exactly one BpmPoint, at time 0 with value 120; if it has no
\* stops, every compiled note is at time b x 0.5 seconds for the beat b of a
\* note event of its lane and kind, and every tap event at beat b gives a tap
\* note at b x 0.5.
C20_TempoDefault ==
    (parseCalls = 1 /\ NoTempoHeader /\ NoTempoChannel) =>
        /\ parsed.bpms = <<[time |-> Num(0), bpm |-> Num(120)]>>
        /\ parsed.stops = <<>> =>
              /\ \A i \in 1..Len(parsed.notes) :
                    \E e \in NoteEvents :
                        /\ e.lane = parsed.notes[i].lane
                        /\ (e.type = "note") = (parsed.notes[i].type = "tap")
                        /\ parsed.notes[i].time = RMul(e.beat, Rat(1, 2))
              /\ \A e \in NoteEvents :
                    e.type = "note" =>
                        \E i \in 1..Len(parsed.notes) :
                            parsed.notes[i] = [time |-> RMul(e.beat, Rat(1, 2)),
                                               lane |-> e.lane, type |-> "tap",
                                               duration |-> Num(0)]

\* A chart without tempo header, tempo channel and stops was compiled to
\* several notes, one of them after beat 0 in a measure that follows a
\* measure of another length.
C20_Witness ==
    /\ parseCalls = 1 /\ NoTempoHeader /\ NoTempoChannel
    /\ parsed.stops = <<>>
    /\ Len(parsed.notes) >= 2
    /\ hasChannel(parser.measures, 1, <<"0", "2">>)
    /\ \E i \in 1..Len(parsed.notes) : RLt(Num(6), parsed.notes[i].time)

\* The chart compiled from the text of the parser object with its stop
\* definitions left out: the timeline without stops.
NoStopChart ==
    buildTimeLine(newParser(parser.text),
                  [readFresh(parser.text) EXCEPT !.stopDefs = EmptyMap]).chart

\* The text has tempo 120 throughout and a single stop, of 48 ticks at beat 4.
SingleStopAtBeat4 ==
    /\ parseCalls = 1 /\ NoTempoHeader /\ NoTempoChannel
    /\ timeEventsOf(readFresh(parser.text))
           = <<Event("time", Num(4), "stop", Num(48), -1, <<"0", "1">>)>>

\* Note i of the chart is the note i of the timeline without stops, delayed
\* by d seconds if that note is at or after `from` seconds (inclusive) or
\* after it (exclusive).
ShiftedFrom(from, inclusive, d) ==
    /\ Len(parsed.notes) = Len(NoStopChart.notes)
    /\ \A i \in 1..Len(parsed.notes) :
          LET base == NoStopChart.notes[i]
              late == RLt(from, base.time) \/ (inclusive /\ base.time = from)
          IN parsed.notes[i] =
                 [base EXCEPT !.time = IF late THEN RAdd(@, d) ELSE @]

\* C21 as stated: with a single stop of 48 ticks at beat 4 and tempo 120
\* throughout, stops[0].duration is 1.0 second and every note at beat >= 4
\* (2 seconds on the timeline without stops) is 1.0 second later than on
\* that timeline.
C21_StopOneSecond ==
    SingleStopAtBeat4 =>
        /\ Len(parsed.stops) = 1
        /\ parsed.stops[1].duration = Num(1)
        /\ ShiftedFrom(Num(2), TRUE, Num(1))

\* C21, amended: with a single stop of 48 ticks at beat 4 and tempo 120
\* throughout, the stop is recorded at 2 seconds with a duration of 0.5
\* seconds (48 ticks are one beat), every note at a beat after 4 is 0.5
\* seconds later than on the timeline without stops, and every note at beat 4
\* or before keeps its time.
C21_StopHalfSecond ==
    SingleStopAtBeat4 =>
        /\ parsed.stops = <<[time |-> Num(2), duration |-> Rat(1, 2)]>>
        /\ ShiftedFrom(Num(2), FALSE, Rat(1, 2))

\* A chart with the single stop was compiled to notes before beat 4, at beat 4
\* and after it.
C21_Witness ==
    /\ SingleStopAtBeat4
    /\ \E i, j, k \in 1..Len(NoStopChart.notes) :
          /\ RLt(NoStopChart.notes[i].time, Num(2))
          /\ NoStopChart.notes[j].time = Num(2)
          /\ RLt(Num(2), NoStopChart.notes[k].time)

\* The hold events of a lane in the order of channelEvents, and the hold
\* notes of the lane in the compiled list.
LnEventsIn(lane) ==
    SelectSeq(channelEventsOf(readFresh(parser.text)),
              LAMBDA e : e.type = "ln" /\ e.lane = lane)

LnNotesIn(lane) ==
    SelectSeq(parsed.notes, LAMBDA n : n.type = "ln" /\ n.lane = lane)

\* beatToTime.get(beat) of the compilation of the text.
TimeOfBeat(beat) == timeLineOf(readFresh(parser.text)).beatToTime[beat]

\* The hold note that the events k and k + 1 of a lane's hold events span.
SpanOf(lane, k) ==
    lnNote(TimeOfBeat(LnEventsIn(lane)[k].beat), lane,
           RSub(TimeOfBeat(LnEventsIn(lane)[k + 1].beat),
                TimeOfBeat(LnEventsIn(lane)[k].beat)))

\* C22: hold pairing under the toggle convention.  The hold channel with the
\* steps 11, 00, 00, 11 in measure 1 compiles to exactly one hold note in its
\* lane, from the time of step 0 (2 s) with the duration time(step 3) -
\* time(step 0) (1.5 s); in general the hold events 2k - 1 and 2k of a lane
\* give one note each, and there are no other hold notes.
C22_TogglePairs ==
    /\ (parseCalls = 1 /\ parser.text = TextToggle) =>
           parsed.notes = <<lnNote(Num(2), 0, Rat(3, 2))>>
    /\ (parseCalls = 1 /\ lnTypeOf(parser.headers) # Num(2)) =>
           \A lane \in 0..6 :
               /\ Len(LnNotesIn(lane)) = Len(LnEventsIn(lane)) \div 2
               /\ \A k \in 1..(Len(LnEventsIn(lane)) \div 2) :
                     \E j \in 1..Len(LnNotesIn(lane)) :
                         LnNotesIn(lane)[j] = SpanOf(lane, 2 * k - 1)

\* The four-step hold channel was compiled to its one hold note.
C22_Witness ==
    /\ parseCalls = 1 /\ parser.text = TextToggle
    /\ Len(LnEventsIn(0)) = 2
    /\ Len(LnNotesIn(0)) = 1
    /\ LnNotesIn(0)[1] = SpanOf(0, 1)

\* C23: end-to-end scenario.  Base tempo 150, one measure of 4 beats and a tap
\* at step 0 of a four-step lane-0 channel compile to the single note {time 0,
\* lane 0, tap, duration 0} and to a duration of (60 / 150) * 4 = 1.6 seconds,
\* which the value parse() returns carries.
C23_EndToEnd ==
    (parseCalls = 1 /\ parser.text = TextTempo150) =>
        /\ parsed.notes = <<[time |-> Num(0), lane |-> 0, type |-> "tap",
                             duration |-> Num(0)]>>
        /\ parser.duration = Rat(8, 5)
        /\ "duration" \in DOMAIN parsed
        /\ parsed.duration = Rat(8, 5)

\* The critical beats of the compilation of the text, in ascending order.
CriticalBeats ==
    sortedBeatsOf(timeEventsOf(readFresh(parser.text)),
                  channelEventsOf(readFresh(parser.text)))

\* A stop of zero length occurs at the beat.
ZeroStopAt(beat) ==
    \E i \in 1..Len(timeEventsOf(readFresh(parser.text))) :
        LET ev == timeEventsOf(readFresh(parser.text))[i]
        IN ev.type = "stop" /\ ev.beat = beat /\ ev.value = Num(0)

\* C24: monotonic time.  For every text the parser compiles and all adjacent
\* critical beats b1 < b2, time(b2) >= time(b1), and time(b2) > time(b1)
\* unless a zero-length stop occurs at b2.
C24_MonotonicTime ==
    parseCalls = 1 =>
        \A k \in 1..(Len(CriticalBeats) - 1) :
            /\ RLe(TimeOfBeat(CriticalBeats[k]), TimeOfBeat(CriticalBeats[k + 1]))
            /\ \/ RLt(TimeOfBeat(CriticalBeats[k]), TimeOfBeat(CriticalBeats[k + 1]))
               \/ ZeroStopAt(CriticalBeats[k + 1])

\* The lists and lnPending of a new parser object after the loop that
\* generates the notes.
Generated ==
    generate([notes |-> <<>>, bgmEvents |-> <<>>,
              lnPending |-> [l \in 0..9 |-> NoPending]],
             channelEventsOf(readFresh(parser.text)),
             timeLineOf(readFresh(parser.text)).beatToTime,
             lnTypeOf(readFresh(parser.text).headers), 1)

\* this.notes after that loop and before the final sort.
PushedNotes == Generated.notes

CompiledAgain == parseOf(newParser(parser.text)).chart

PendingAtEnd(lane) == Generated.lnPending[lane]

\* C27: a hold note still pending when the generation of the notes ends is
\* discarded, under either long-note convention: every compiled hold note
\* runs from a hold event of its lane to a later hold event of that lane, and
\* no compiled hold note of the lane starts at the time of the pending note.
C27_PendingDiscarded ==
    parseCalls = 1 =>
        \A lane \in 0..9 :
            /\ \A j \in 1..Len(LnNotesIn(lane)) :
                  \E k, m \in 1..Len(LnEventsIn(lane)) :
                      /\ k < m
                      /\ LnNotesIn(lane)[j] =
                             lnNote(TimeOfBeat(LnEventsIn(lane)[k].beat), lane,
                                    RSub(TimeOfBeat(LnEventsIn(lane)[m].beat),
                                         TimeOfBeat(LnEventsIn(lane)[k].beat)))
            /\ PendingAtEnd(lane).set =>
                  \A j \in 1..Len(LnNotesIn(lane)) :
                      LnNotesIn(lane)[j].time # PendingAtEnd(lane).time

\* Under the toggle convention a lane had three hold events: the first two
\* were compiled to a note and the third was left pending.
C27_Witness ==
    /\ parseCalls = 1
    /\ lnTypeOf(parser.headers) = Num(1)
    /\ Len(LnEventsIn(0)) = 3
    /\ PendingAtEnd(0).set
    /\ Len(LnNotesIn(0)) = 1

\* The steps of the hold channels of a lane in the text, null steps
\* included, each with its absolute beat.
HoldSteps(lane) ==
    UNION {UNION {{[beat |-> getBeat(parser.measures, m, i,
                                     Len(parser.measures[m][c].data)),
                    valStr |-> SubSeq(parser.measures[m][c].data, 2 * i + 1, 2 * i + 2)]
                   : i \in 0..((Len(parser.measures[m][c].data) \div 2) - 1)}
                  : c \in {x \in 1..Len(parser.measures[m]) :
                             lnLane(parseInt(parser.measures[m][x].ch, 10).n) = lane}}
           : m \in DOMAIN parser.measures}

\* The step of the lane's hold channels that comes last before the beat.
StepBefore(lane, beat) ==
    CHOOSE x \in HoldSteps(lane) :
        /\ RLt(x.beat, beat)
        /\ \A y \in HoldSteps(lane) : RLt(y.beat, beat) => RLe(y.beat, x.beat)

\* The compilation gave the beat a time.
Timed(beat) == beat \in DOMAIN timeLineOf(readFresh(parser.text)).beatToTime

\* C28: explicit-off convention (LNTYPE 2).  In every hold lane a null step
\* of the lane's hold channel that follows a non-null step closes the hold
\* that step opened: a note from the time of the non-null step with duration
\* closeTime - openTime is compiled.
C28_ExplicitOff ==
    (parseCalls = 1 /\ lnTypeOf(parser.headers) = Num(2)) =>
        \A lane \in 0..6 :
            \A e \in HoldSteps(lane) :
                (/\ e.valStr = <<"0", "0">>
                 /\ \E x \in HoldSteps(lane) : RLt(x.beat, e.beat)
                 /\ StepBefore(lane, e.beat).valStr # <<"0", "0">>) =>
                    /\ Timed(e.beat)
                    /\ \E j \in 1..Len(LnNotesIn(lane)) :
                          LnNotesIn(lane)[j] =
                              lnNote(TimeOfBeat(StepBefore(lane, e.beat).beat), lane,
                                     RSub(TimeOfBeat(e.beat),
                                          TimeOfBeat(StepBefore(lane, e.beat).beat)))

\* The lines of the text that address the length-scale channel of measure j:
\* "#", the three digits of j, "02", ":" and a value.
ScaleLines(j) ==
    SelectSeq([k \in 1..Len(splitLines(parser.text)) |-> trim(splitLines(parser.text)[k])],
              LAMBDA l : /\ Len(l) >= 8
                         /\ l[1] = "#"
                         /\ \A k \in 2..6 : isDigit(l[k])
                         /\ parseInt(SubSeq(l, 2, 4), 10) = Num(j)
                         /\ SubSeq(l, 5, 7) = <<"0", "2", ":">>)

\* The scale the text gives measure j: the real number of its last
\* length-scale line, and 1 without such a line.
TextScale(j) ==
    IF ScaleLines(j) = <<>> THEN Num(1)
    ELSE parseFloat(SubSeq(ScaleLines(j)[Len(ScaleLines(j))], 8,
                           Len(ScaleLines(j)[Len(ScaleLines(j))])))

\* The sum over j < i of 4.0 x scale_j.
RECURSIVE BeatsBefore(_)
BeatsBefore(i) ==
    IF i = 0 THEN Num(0)
    ELSE RAdd(BeatsBefore(i - 1), RMul(Num(4), TextScale(i - 1)))

\* C29: measure length resolution.  For every measure index i from 0 to the
\* maximum observed index (and the index after it), the start beat of the
\* measure is the sum over j < i of 4.0 x scale_j, where scale_j is the real
\* number the text gives on measure j's length-scale channel, and 1 without it.
C29_MeasureLength ==
    parseCalls = 1 =>
        \A i \in 0..(maxMeasureOf(parser.measures) + 1) :
            measureStartBeats(parser.measures, i) = BeatsBefore(i)

\* The trimmed lines of the text.
TextLines ==
    [k \in 1..Len(splitLines(parser.text)) |-> trim(splitLines(parser.text)[k])]

\* What a line addresses: a measure/channel pair, a header key, or nothing.
LineKey(l) ==
    IF matchMeasure(l) THEN <<"grid", SubSeq(l, 2, 6)>>
    ELSE IF matchHeader(l) THEN <<"header", headerKey(l)>>
    ELSE <<"none", <<>>>>

\* Line k is the last line of the text for what it addresses.
IsLast(k) ==
    \A j \in (k + 1)..Len(TextLines) :
        LineKey(TextLines[j])[1] = "none" \/ LineKey(TextLines[j]) # LineKey(TextLines[k])

\* The text without the lines that a later line for the same header key or
\* the same measure/channel pair supersedes.
LastLines ==
    joinLines(SelectSeq([k \in 1..Len(TextLines) |->
                            IF IsLast(k) THEN TextLines[k] ELSE <<>>],
                        LAMBDA l : l # <<>>))

\* C30: last occurrence wins.  The value stored for a header key is that of
\* the last directive line with the key, the data stored for a
\* measure/channel pair is that of the last grid line for the pair, and the
\* compiled lists are those of the text without the superseded lines.
C30_LastWins ==
    parseCalls = 1 =>
        /\ \A k \in 1..Len(TextLines) :
              (IsLast(k) /\ matchMeasure(TextLines[k])) =>
                  channelData(parser.measures,
                              parseInt(SubSeq(TextLines[k], 2, 4), 10).n,
                              SubSeq(TextLines[k], 5, 6))
                      = SubSeq(TextLines[k], 8, Len(TextLines[k]))
        /\ \A k \in 1..Len(TextLines) :
              (IsLast(k) /\ ~matchMeasure(TextLines[k]) /\ matchHeader(TextLines[k])) =>
                  parser.headers[headerKey(TextLines[k])] = headerValue(TextLines[k])
        /\ parsed.notes = parseOf(newParser(LastLines)).chart.notes
        /\ parsed.bgmEvents = parseOf(newParser(LastLines)).chart.bgmEvents
        /\ parsed.bpms = parseOf(newParser(LastLines)).chart.bpms
        /\ parsed.stops = parseOf(newParser(LastLines)).chart.stops

\* The stop events of the compilation in the order they are processed, as
\* indices into timeEvents.
StopIndices ==
    SelectSeq([i \in 1..Len(timeEventsOf(readFresh(parser.text))) |-> i],
              LAMBDA i : timeEventsOf(readFresh(parser.text))[i].type = "stop")

\* The tempo in effect when time event i is processed: the value of the last
\* tempo event before it, or the initial tempo.
RECURSIVE TempoBefore(_)
TempoBefore(i) ==
    IF i = 1 THEN initialBPMOf(readFresh(parser.text).headers)
    ELSE IF timeEventsOf(readFresh(parser.text))[i - 1].type = "bpm"
    THEN timeEventsOf(readFresh(parser.text))[i - 1].value
    ELSE TempoBefore(i - 1)

\* stopTicks / 48 x 60 / currentTempo for the stop that is time event i.
StopSeconds(i) ==
    RMul(RDiv(timeEventsOf(readFresh(parser.text))[i].value, Num(48)),
         RDiv(Num(60), TempoBefore(i)))

\* The seconds the stops k.. of StopIndices at beats before the beat add.
RECURSIVE StopsBefore(_, _)
StopsBefore(beat, k) ==
    IF k > Len(StopIndices) THEN Num(0)
    ELSE RAdd(IF RLt(timeEventsOf(readFresh(parser.text))[StopIndices[k]].beat, beat)
              THEN StopSeconds(StopIndices[k]) ELSE Num(0),
              StopsBefore(beat, k + 1))

\* beatToTime.get(beat) of the compilation of the text without its stop
\* definitions.
NoStopTimeOfBeat(beat) ==
    timeLineOf([readFresh(parser.text) EXCEPT !.stopDefs = EmptyMap]).beatToTime[beat]

\* The beats of the notes and background events of the text.
EventBeats ==
    {channelEventsOf(readFresh(parser.text))[i].beat :
        i \in 1..Len(channelEventsOf(readFresh(parser.text)))}

\* C31: a stop at beat b adds stopTicks / 48 x 60 / currentTempo seconds and
\* is recorded as a StopEvent at the time beat b has before the stop; an
\* event at exactly beat b keeps that time, and every event at a beat after b
\* is delayed by the stop's duration (the time of an event is its time
\* without stops plus the durations of the stops at earlier beats).
C31_StopSemantics ==
    parseCalls = 1 =>
        /\ Len(parsed.stops) = Len(StopIndices)
        /\ \A k \in 1..Len(StopIndices) :
              parsed.stops[k] =
                  [time |-> TimeOfBeat(timeEventsOf(readFresh(parser.text))
                                           [StopIndices[k]].beat),
                   duration |-> StopSeconds(StopIndices[k])]
        /\ \A b \in EventBeats :
              TimeOfBeat(b) = RAdd(NoStopTimeOfBeat(b), StopsBefore(b, 1))

\* Two stops were compiled under a tempo that the tempo channel has set, with
\* an event at the beat of the first stop and an event after both stops.
C31_Witness ==
    /\ parseCalls = 1
    /\ Len(StopIndices) = 2
    /\ StopSeconds(StopIndices[2]) = Num(1)
    /\ \E b \in EventBeats :
          /\ b = timeEventsOf(readFresh(parser.text))[StopIndices[1]].beat
          /\ StopsBefore(b, 1) = Num(0)
    /\ \E b \in EventBeats : StopsBefore(b, 1) = Num(2)

\* C37: parse() is idempotent.  The second call of parse() on a parser object
\* returns the same Note, BGMEvent, BpmPoint and StopEvent lists as the first
\* call.
C37_ParseIdempotent ==
    [][(parseCalls = 1 /\ parseCalls' = 2) =>
           /\ parsed'.notes = parsed.notes
           /\ parsed'.bgmEvents = parsed.bgmEvents
           /\ parsed'.bpms = parsed.bpms
           /\ parsed'.stops = parsed.stops]_vars

\* ------------------------------------------------------------------ C32
Rank(judge) ==
    CASE judge = "COOL" -> 3 [] judge = "GOOD" -> 2 [] judge = "BAD" -> 1 [] OTHER -> 0

\* The tier the one judgment of the session was of.
TierApplied ==
    CASE stats.cool = 1 -> "COOL"
      [] stats.good = 1 -> "GOOD"
      [] stats.bad = 1 -> "BAD"
      [] OTHER -> "MISS"

\* C32: the tier is a monotone function of the absolute offset.  When a press
\* has judged the note at offset m, the tier applied is never worse than the
\* tier of any offset of the 150 ms window that is at least as far from the
\* note, and the note is not missed when |m| is below 108 ms.
C32_TierMonotone ==
    (Judgments = 1) =>
        LET m == currentTime - runtimeNotes[1].time
        IN /\ \A m2 \in (1 - Ms(150))..(Ms(150) - 1) :
                  Abs(m) <= Abs(m2) => Rank(TierApplied) >= Rank(judgeOf(m2))
           /\ Abs(m) < Ms(108) => ~runtimeNotes[1].missed

\* ------------------------------------------------------------------ C33
\* The closest candidate of a press in lane is more than 108 ms and less than
\* 150 ms away from the clock reading.
FarTarget(lane) ==
    LET cand == candidates(runtimeNotes, lane, currentTime)
    IN /\ cand # {}
       /\ Abs(runtimeNotes[closest(runtimeNotes, cand, currentTime)].time - currentTime)
              > Ms(108)

\* C33: a press can consume a note as a miss.  A press whose closest candidate
\* is beyond 108 ms (early or late) marks that candidate, and no other note,
\* missed and applies the miss penalty once; a missed note is never changed
\* again by a tick, a press or a release, so it can never be hit.
C33_PressMiss ==
    [][/\ \A code \in DOMAIN keys :
              (onKeyDown(code) /\ FarTarget(keys[code])) =>
                  LET t == closest(runtimeNotes,
                                   candidates(runtimeNotes, keys[code], currentTime),
                                   currentTime)
                  IN /\ runtimeNotes' =
                            [runtimeNotes EXCEPT ![t] = [@ EXCEPT !.missed = TRUE]]
                     /\ stats'.miss = stats.miss + 1
                     /\ stats'.hp = Max(0, stats.hp - 8)
                     /\ stats'.combo = 0
                     /\ stats'.comboBonus = 0
                     /\ stats'.score < stats.score \/ stats'.score = 0
                     /\ stats'.cool = stats.cool
                     /\ stats'.good = stats.good
                     /\ stats'.bad = stats.bad
       /\ JudgmentEvent =>
              \A i \in Notes :
                  runtimeNotes[i].missed => runtimeNotes'[i] = runtimeNotes[i]]_vars

\* A note was missed by a press before its own time: the tick marks a note
\* missed only when it is more than 150 ms late.
C33_Witness ==
    \E i \in Notes :
        /\ runtimeNotes[i].missed
        /\ ~runtimeNotes[i].hit
        /\ stats.miss = 1
        /\ currentTime + Ms(108) < runtimeNotes[i].time

\* ------------------------------------------------------------------ C34
FlagsSet(n) ==
    (IF n.hit THEN 1 ELSE 0) + (IF n.missed THEN 1 ELSE 0)
        + (IF n.isHolding THEN 1 ELSE 0)

\* C34: every runtime note is in exactly one of the states Scheduled, Holding,
\* Hit and Missed: at most one of its flags hit, missed and isHolding is true,
\* and isHolding is true only of a hold note.
C34_OneState ==
    \A i \in Notes :
        /\ FlagsSet(runtimeNotes[i]) <= 1
        /\ runtimeNotes[i].isHolding => runtimeNotes[i].type = "ln"

\* ------------------------------------------------------------------ C35
\* C35: comboBonus is determined by combo.  In every reachable state
\* comboBonus equals 10 times the number of whole 25s in combo; the two are
\* reset together.
C35_BonusOfCombo == stats.comboBonus = 10 * (stats.combo \div 25)

\* A combo has passed 25 after an earlier combo was broken.
C35_Witness ==
    /\ stats.combo > 25
    /\ stats.comboBonus = 10
    /\ stats.miss + stats.bad > 0

\* ------------------------------------------------------------------ C36
MissedNotes == {i \in Notes : runtimeNotes[i].missed}

\* C36: the miss counter counts the notes that were missed.  While a session
\* is in play (from the start() that began it until stop()), stats.miss equals
\* the number of runtime notes whose missed flag is true.
C36_MissCount == isPlaying => stats.miss = Cardinality(MissedNotes)

\* ------------------------------------------------------------------ C38
\* The compiled lane the notes of lane 3 are taken from.
SourceOfLane3(chart) ==
    IF 3 \in usedLanes(chart) THEN 3
    ELSE IF 4 \in usedLanes(chart) THEN 4
    ELSE 5

\* The compiled notes that are kept, in chart order.
KeptNotes(chart) ==
    SelectSeq(chart, LAMBDA n : n.lane \in {0, 1, 2, SourceOfLane3(chart)})

\* C38: lane remapping at session start.  The runtime notes are the compiled
\* notes of lanes 0, 1, 2 and of one further lane (3, or 4 when 3 is unused,
\* or 5 when 3 and 4 are unused), in chart order: lanes 0..2 keep their lane,
\* the notes of the further lane are placed in lane 3, every other note is
\* dropped, and so every runtime note has a lane in 0..3 and two compiled
\* lanes are never merged.
C38_LaneRemap ==
    [][startLoaded =>
          LET kept == KeptNotes(startChart)
          IN /\ Len(runtimeNotes') = Len(kept)
             /\ \A j \in 1..Len(kept) :
                    /\ runtimeNotes'[j].time = kept[j].time
                    /\ runtimeNotes'[j].type = kept[j].type
                    /\ runtimeNotes'[j].duration = kept[j].duration
                    /\ runtimeNotes'[j].lane \in 0..3
                    /\ runtimeNotes'[j].lane =
                           (IF kept[j].lane \in {0, 1, 2} THEN kept[j].lane ELSE 3)]_vars

\* Lanes 3 and 4 were both used by the chart being started: only the notes of
\* lane 3 were installed.
C38_Witness ==
    /\ startPc = "resuming"
    /\ {3, 4} \subseteq usedLanes(startChart)
    /\ Len(runtimeNotes) < Len(startChart)
    /\ \E j \in Notes : runtimeNotes[j].lane = 3

\* ------------------------------------------------------------------ C40
\* No tick, press or release would change the Performance State or a note.
Inert ==
    /\ isPlaying => sweepTo(game, Len(runtimeNotes), currentTime) = game
    /\ isPlaying =>
           \A code \in DOMAIN keys : checkHit(game, keys[code], currentTime) = game
    /\ \A code \in DOMAIN keys : checkLNRelease(game, keys[code], currentTime) = game

\* C40: a failed load leaves the engine inert.  When the audio fails to load,
\* start() returns without installing the notes of the new chart, and in the
\* state it returns in no tick, press or release changes the Performance State
\* or a flag of a note, also when a session was in play at the call.
C40_FailedLoadInert ==
    [][startLoadFailed => (UNCHANGED runtimeNotes /\ Inert')]_vars

\* ------------------------------------------------------------------ C39
\* Note i of the session in play is neither hit nor missed.
Pending(i) ==
    /\ isPlaying
    /\ startPc = "idle"
    /\ i \in Notes
    /\ ~Terminal(runtimeNotes[i])

\* Note i is hit or missed, or the session has ended: it was stopped, or
\* start() was called and is replacing it.
Settled(i) ==
    \/ ~isPlaying
    \/ startPc # "idle"
    \/ i \in Notes /\ Terminal(runtimeNotes[i])

====
